---- MODULE Spec2Model ----
(***************************************************************************)
(* Version lifecycle and promotion protocol of the platform API.           *)
(*                                                                         *)
(* The relational store holds the `versions` and `apps` tables; the        *)
(* deployment platform holds, per project, the deployment that currently   *)
(* serves production.  Request handlers run concurrently; every store      *)
(* statement and every platform call is one atomic step of its handler.    *)
(***************************************************************************)
EXTENDS Integers, Sequences, FiniteSets, TLC

\* Bounds of the model.
MaxVersions == 2
MaxProcs == 2
MaxNameLen == 4
MaxApps == 1

FirstApp == "a1"
AppIds == {FirstApp, "a2"}
VersionIds == 1..MaxVersions
Procs == 1..MaxProcs

VARIABLES versions, apps, production, created, pc, loc, trail,
          reply, tasks, stages, registry, namer

vars == <<versions, apps, production, created, pc, loc, trail,
          reply, tasks, stages, registry, namer>>

\* What the version service's requests leave alone: the last reply handed to a
\* caller, the background setup tasks, the stages they went through, the
\* secondary registry and the domain namer's call.
setupVars == <<reply, tasks, stages, registry, namer>>

----------------------------------------------------------------------------
\* Go pointers (*string, *int): nil, or a pointer to a value.
Nil == <<>>
Ptr(x) == <<x>>
IsNilOrEmpty(p) == p = Nil \/ p[1] = ""

\* Identifiers handed out by the deployment platform.
DeployID(vid) == "dpl_" \o ToString(vid)
ProjectOf(app) == "prj_" \o app

Projects == {ProjectOf(a) : a \in AppIds}
ProjectIdValues == {Nil, Ptr("")} \cup {Ptr(project) : project \in Projects}

Statuses == {"pending", "building", "completed", "error", "promoted"}

\* Error values returned by the handlers (the message, with its wrapped cause
\* where one message wraps two different causes).
NoErr == "nil"
ErrNotFound == "version not found: no rows in result set"
ErrGetVersionStore == "version not found: store failure"
ErrInvalidState == "cannot promote version with status, must be 'completed'"
ErrMissingDeployment == "version has no vercel deployment ID"
ErrFetchApp == "failed to fetch app"
ErrMissingProject == "app has no vercel project ID"
ErrPlatform == "failed to promote deployment on Vercel"
ErrUpdateApp == "failed to update app prod_version"
ErrNoFields == "no fields to update"
ErrUpdateVersion == "failed to update version"
ErrMaxVersion == "failed to get max version"
ErrCreateVersion == "failed to create version"
ErrDeleteVersion == "failed to delete version"
ErrDeleteNotFound == "version not found"
ErrListVersions == "failed to list versions"
ErrCreateApp == "failed to create app"
ErrDeleteApp == "failed to delete app"
ErrAppNotFound == "app not found"
ErrUpdateAppRow == "failed to update app"

----------------------------------------------------------------------------
\* Text is a sequence of one-character strings.
UpperLetters ==
    <<"A", "B", "C", "D", "E", "F", "G", "H", "I", "J", "K", "L", "M",
      "N", "O", "P", "Q", "R", "S", "T", "U", "V", "W", "X", "Y", "Z">>
LowerLetters ==
    <<"a", "b", "c", "d", "e", "f", "g", "h", "i", "j", "k", "l", "m",
      "n", "o", "p", "q", "r", "s", "t", "u", "v", "w", "x", "y", "z">>
Digits == {"0", "1", "2", "3", "4", "5", "6", "7", "8", "9"}
Range(text) == {text[i] : i \in 1..Len(text)}

\* strings.ToLower
ToLowerChar(c) ==
    IF \E i \in 1..Len(UpperLetters) : UpperLetters[i] = c
    THEN LowerLetters[CHOOSE i \in 1..Len(UpperLetters) : UpperLetters[i] = c]
    ELSE c
ToLower(text) == [i \in 1..Len(text) |-> ToLowerChar(text[i])]

\* strings.ReplaceAll(text, old, new) for a one-character old
RECURSIVE ReplaceAll(_, _, _)
ReplaceAll(text, old, new) ==
    IF text = <<>> THEN <<>>
    ELSE (IF Head(text) = old THEN new ELSE <<Head(text)>>)
             \o ReplaceAll(Tail(text), old, new)

\* regexp "[^a-z0-9-]+" replaced by "": the characters of the class stay
SlugChars == Range(LowerLetters) \cup Digits \cup {"-"}
RECURSIVE Keep(_, _)
Keep(text, class) ==
    IF text = <<>> THEN <<>>
    ELSE (IF Head(text) \in class THEN <<Head(text)>> ELSE <<>>) \o Keep(Tail(text), class)

\* regexp "-+" replaced by "-"
RECURSIVE Collapse(_, _)
Collapse(text, c) ==
    IF Len(text) < 2 THEN text
    ELSE IF text[1] = c /\ text[2] = c THEN Collapse(Tail(text), c)
    ELSE <<Head(text)>> \o Collapse(Tail(text), c)

\* strings.Trim(text, cutset) for a one-character cutset
RECURSIVE TrimLeft(_, _)
TrimLeft(text, c) ==
    IF text # <<>> /\ Head(text) = c THEN TrimLeft(Tail(text), c) ELSE text
RECURSIVE TrimRight(_, _)
TrimRight(text, c) ==
    IF text # <<>> /\ text[Len(text)] = c
    THEN TrimRight(SubSeq(text, 1, Len(text) - 1), c) ELSE text
Trim(text, c) == TrimRight(TrimLeft(text, c), c)

\* Slugify without the removal of the characters outside [a-z0-9-].
SlugifyKeepAll(text) ==
    Trim(Collapse(ReplaceAll(ToLower(text), " ", <<"-">>), "-"), "-")

\* Slugify without the collapse of repeated hyphens.
SlugifyNoCollapse(text) ==
    Trim(Keep(ReplaceAll(ToLower(text), " ", <<"-">>), SlugChars), "-")

Slugify(text) ==
    LET lower == ToLower(text)
        hyphened == ReplaceAll(lower, " ", <<"-">>)
        stripped == Keep(hyphened, SlugChars)
        collapsed == Collapse(stripped, "-")
    IN Trim(collapsed, "-")

SuffixLen == 6
FallbackSlug == <<"a", "p", "p">>
PlatformDomain ==
    <<".", "r", "a", "p", "i", "d", "b", "u", "i", "l", "d", ".", "a", "p", "p">>

GenerateProductionDomain(appName, appID) ==
    LET slug == IF Slugify(appName) = <<>> THEN FallbackSlug ELSE Slugify(appName)
        cleanID == ReplaceAll(appID, "-", <<>>)
        idLength == Len(cleanID)
        suffix == IF idLength >= SuffixLen
                  THEN SubSeq(cleanID, idLength - SuffixLen + 1, idLength)
                  ELSE cleanID
    IN slug \o <<"-">> \o suffix \o PlatformDomain

----------------------------------------------------------------------------
\* The deployment platform's answer to a promotion request.
AlreadyProduction == "already the current production deployment"
Contains(body, phrase) == \E i \in 1..Len(body) : body[i] = phrase

NoResp == [status |-> 0, body |-> <<>>]
TransportFailure == [status |-> -1, body |-> <<>>]
RespPromoted == {[status |-> 201, body |-> <<>>], [status |-> 202, body |-> <<>>]}
RespAlready == [status |-> 409, body |-> <<"Deployment is", AlreadyProduction>>]
RespRefused == {[status |-> 409, body |-> <<"conflict">>], [status |-> 500, body |-> <<>>], TransportFailure}
Responses == RespPromoted \cup {RespAlready} \cup RespRefused

\* What the platform may answer for (project, deployment): it repoints
\* production and answers 201/202, or reports that the deployment already is
\* the production one, or refuses.
PlatformResponses(project, deployment) ==
    RespPromoted \cup RespRefused
        \cup (IF production[project] = deployment THEN {RespAlready} ELSE {})

\* PromoteDeployment treating every 409 as an error.
PromoteDeploymentNo409(resp) ==
    IF resp = TransportFailure THEN "transport error"
    ELSE IF resp.status # 201 /\ resp.status # 202
         THEN "vercel promotion failed"
    ELSE NoErr

\* PromoteDeployment accepting every 409 without reading its body.
PromoteDeploymentAny409(resp) ==
    IF resp = TransportFailure THEN "transport error"
    ELSE IF resp.status # 201 /\ resp.status # 202 /\ resp.status # 409
         THEN "vercel promotion failed"
    ELSE NoErr

\* PromoteDeployment accepting every 2xx status.
PromoteDeploymentAny2xx(resp) ==
    IF resp = TransportFailure THEN "transport error"
    ELSE IF (resp.status < 200 \/ resp.status > 299) /\ resp.status # 409
         THEN "vercel promotion failed"
    ELSE IF resp.status = 409
         THEN IF Contains(resp.body, AlreadyProduction)
              THEN NoErr
              ELSE "vercel promotion conflict (status 409)"
    ELSE NoErr

PromoteDeployment(resp) ==
    IF resp = TransportFailure THEN "transport error"
    ELSE IF resp.status # 201 /\ resp.status # 202 /\ resp.status # 409
         THEN "vercel promotion failed"
    ELSE IF resp.status = 409
         THEN IF Contains(resp.body, AlreadyProduction)
              THEN NoErr
              ELSE "vercel promotion conflict (status 409)"
    ELSE NoErr

----------------------------------------------------------------------------
\* apps table
Owner == "u1"
Description == "a task tracker"
MyApp == <<"M", "y", "A", "p", "p">>
MyAppDisplay == <<"M", "y", " ", "A", "p", "p">>

\* The text of the identifiers uuid.New().String() hands out (lower-case hex
\* digits and hyphens), scaled down.
IdText(app) ==
    IF app = FirstApp THEN <<"2", "b", "-", "4", "0", "1", "6", "2", "3">>
    ELSE <<"8", "7", "d", "8", "-", "0", "e", "2", "6">>

\* The row CreateApp inserts, as the INSERT ... RETURNING hands it back.
NewApp(appID, userID, description) ==
    [id |-> appID, user_id |-> userID, name |-> MyApp, display_name |-> Ptr(MyAppDisplay),
     description |-> description, category |-> Ptr("other"), color_scheme |-> Ptr("blue"),
     status |-> "building",
     production_url |-> Ptr(GenerateProductionDomain(MyApp, IdText(appID))),
     logo |-> Nil, prod_version |-> Nil, vercel_project_id |-> Nil]

----------------------------------------------------------------------------
\* Config extraction.
\* DefaultConfig without a brand name.
DefaultConfigUnnamed ==
    [appName |-> <<>>, displayName |-> MyAppDisplay, requiresAuth |-> TRUE,
     allowSignup |-> TRUE, category |-> "other", keywords |-> <<"app">>,
     colorScheme |-> "blue"]

DefaultConfig ==
    [appName |-> MyApp, displayName |-> MyAppDisplay, requiresAuth |-> TRUE,
     allowSignup |-> TRUE, category |-> "other", keywords |-> <<"app">>,
     colorScheme |-> "blue"]

\* Defaulted filling the display name before the name.
DefaultedDisplayFirst(config) ==
    LET displayed == IF config.displayName = <<>>
                     THEN [config EXCEPT !.displayName = config.appName] ELSE config
        named == IF displayed.appName = <<>> THEN [displayed EXCEPT !.appName = MyApp]
                 ELSE displayed
        categorized == IF named.category = ""
                       THEN [named EXCEPT !.category = "other"] ELSE named
        coloured == IF categorized.colorScheme = ""
                    THEN [categorized EXCEPT !.colorScheme = "blue"] ELSE categorized
    IN IF Len(coloured.keywords) = 0 THEN [coloured EXCEPT !.keywords = <<"app">>]
       ELSE coloured

\* The validation at the end of ExtractAppConfig.
Defaulted(config) ==
    LET named == IF config.appName = <<>> THEN [config EXCEPT !.appName = MyApp] ELSE config
        displayed == IF named.displayName = <<>>
                     THEN [named EXCEPT !.displayName = named.appName] ELSE named
        categorized == IF displayed.category = ""
                       THEN [displayed EXCEPT !.category = "other"] ELSE displayed
        coloured == IF categorized.colorScheme = ""
                    THEN [categorized EXCEPT !.colorScheme = "blue"] ELSE categorized
    IN IF Len(coloured.keywords) = 0 THEN [coloured EXCEPT !.keywords = <<"app">>]
       ELSE coloured

\* The configs the AI endpoint's reply may carry: a full one, an empty one,
\* and one whose name has characters no hostname takes.
Taskly == <<"T", "a", "s", "k", "l", "y">>
BlankConfig ==
    [appName |-> <<>>, displayName |-> <<>>, requiresAuth |-> FALSE, allowSignup |-> FALSE,
     category |-> "", keywords |-> <<>>, colorScheme |-> ""]
ParsedConfigs ==
    {[appName |-> Taskly, displayName |-> Taskly, requiresAuth |-> TRUE,
      allowSignup |-> FALSE, category |-> "productivity", keywords |-> <<"tasks">>,
      colorScheme |-> "green"],
     BlankConfig,
     [BlankConfig EXCEPT !.appName = <<"Q", "&", "A", " ", "!">>]}

\* The AI endpoint's reply: no reply at all, or a status with an envelope that
\* decodes or not, holding candidate texts that parse as a config or not.
GeminiUnreachable == [status |-> -1, envelope |-> FALSE, candidates |-> <<>>]
GeminiReplies ==
    {GeminiUnreachable,
     [status |-> 500, envelope |-> TRUE, candidates |-> <<>>],
     [status |-> 200, envelope |-> FALSE, candidates |-> <<>>],
     [status |-> 200, envelope |-> TRUE, candidates |-> <<>>],
     [status |-> 200, envelope |-> TRUE, candidates |-> <<[json |-> FALSE, config |-> BlankConfig]>>]}
        \cup {[status |-> 200, envelope |-> TRUE, candidates |-> <<[json |-> TRUE, config |-> c]>>] :
                 c \in ParsedConfigs}

ExtractAppConfig(r) ==
    IF r = GeminiUnreachable THEN [err |-> "failed to call Gemini API", config |-> Nil]
    ELSE IF r.status # 200 THEN [err |-> "Gemini API error", config |-> Nil]
    ELSE IF ~r.envelope THEN [err |-> "failed to decode Gemini response", config |-> Nil]
    ELSE IF Len(r.candidates) = 0 THEN [err |-> "empty response from Gemini", config |-> Nil]
    ELSE IF ~r.candidates[1].json THEN [err |-> "failed to parse config JSON", config |-> Nil]
    ELSE [err |-> NoErr, config |-> Ptr(Defaulted(r.candidates[1].config))]

\* ResolvedConfig with no fallback: the zero config on an error.
ResolvedConfigZero(r) ==
    IF ExtractAppConfig(r).err # NoErr THEN BlankConfig ELSE ExtractAppConfig(r).config[1]

\* The config extractConfigAndSetupApp goes on with.
ResolvedConfig(r) ==
    IF ExtractAppConfig(r).err # NoErr THEN DefaultConfig ELSE ExtractAppConfig(r).config[1]

OwnerEmail == "u1@example.com"
UnknownEmail == "unknown@example.com"
LogoURL(appID) == "https://bucket.s3.amazonaws.com/apps/" \o appID \o "/logo.png"

----------------------------------------------------------------------------
\* versions table
NewVersion(id, app, n) ==
    [id |-> id, app_id |-> app, version_number |-> n, status |-> "pending",
     s3_code_path |-> Nil, vercel_url |-> Nil, vercel_deploy_id |-> Nil,
     build_log |-> Nil, error_message |-> Nil, created_at |-> id]

VersionsOf(app) == {i \in DOMAIN versions : versions[i].app_id = app}

\* SELECT COALESCE(MAX(version_number), 0) FROM versions WHERE app_id = $1
MaxVersionNumber(app) ==
    LET ns == {versions[i].version_number : i \in VersionsOf(app)}
    IN IF ns = {} THEN 0 ELSE CHOOSE n \in ns : \A m \in ns : m <= n

\* CreateVersion numbering from the latest number itself.
NextVersionNumberSame(maxVersion) == maxVersion

NextVersionNumber(maxVersion) == maxVersion + 1

\* A dynamically typed value of the updates map.
Str(s) == [type |-> "string", val |-> s]
StrPtr(p) == [type |-> "*string", val |-> p]
Has(updates, key, type) == key \in DOMAIN updates /\ updates[key].type = type

Clause(updates, key, type, column, value) ==
    IF Has(updates, key, type) THEN <<[column |-> column, value |-> value]>> ELSE <<>>

\* SetClauses with the legacy deploy_url written to the code-storage column.
SetClausesLegacyMixed(updates) ==
    LET val(key) == updates[key].val
    IN Clause(updates, "status", "string", "status", val("status"))
       \o Clause(updates, "s3_code_path", "string", "s3_code_path", Ptr(val("s3_code_path")))
       \o Clause(updates, "vercel_url", "string", "vercel_url", Ptr(val("vercel_url")))
       \o Clause(updates, "vercel_deploy_id", "string", "vercel_deploy_id", Ptr(val("vercel_deploy_id")))
       \o Clause(updates, "build_log", "string", "build_log", Ptr(val("build_log")))
       \o Clause(updates, "error_message", "*string", "error_message", val("error_message"))
       \o Clause(updates, "deploy_url", "string", "s3_code_path", Ptr(val("deploy_url")))
       \o Clause(updates, "s3_key", "string", "s3_code_path", Ptr(val("s3_key")))

\* The SET clauses of UpdateVersion, in the order the code appends them.
SetClauses(updates) ==
    LET val(key) == updates[key].val
    IN Clause(updates, "status", "string", "status", val("status"))
       \o Clause(updates, "s3_code_path", "string", "s3_code_path", Ptr(val("s3_code_path")))
       \o Clause(updates, "vercel_url", "string", "vercel_url", Ptr(val("vercel_url")))
       \o Clause(updates, "vercel_deploy_id", "string", "vercel_deploy_id", Ptr(val("vercel_deploy_id")))
       \o Clause(updates, "build_log", "string", "build_log", Ptr(val("build_log")))
       \o Clause(updates, "error_message", "*string", "error_message", val("error_message"))
       \o Clause(updates, "deploy_url", "string", "vercel_url", Ptr(val("deploy_url")))
       \o Clause(updates, "s3_key", "string", "s3_code_path", Ptr(val("s3_key")))

\* The store rejects a statement that assigns one column twice.
AssignsTwice(clauses) ==
    \E i, j \in 1..Len(clauses) : i < j /\ clauses[i].column = clauses[j].column

Assigned(row, clauses, column) ==
    IF \E i \in 1..Len(clauses) : clauses[i].column = column
    THEN clauses[CHOOSE i \in 1..Len(clauses) : clauses[i].column = column].value
    ELSE row[column]

ApplyClauses(row, clauses) ==
    [row EXCEPT !.status = Assigned(row, clauses, "status"),
                !.s3_code_path = Assigned(row, clauses, "s3_code_path"),
                !.vercel_url = Assigned(row, clauses, "vercel_url"),
                !.vercel_deploy_id = Assigned(row, clauses, "vercel_deploy_id"),
                !.build_log = Assigned(row, clauses, "build_log"),
                !.error_message = Assigned(row, clauses, "error_message")]

\* UpdateVersion passing an empty SET list on to the store, which rejects it.
UpdateVersionUnchecked(vid, updates, storeOK) ==
    LET clauses == SetClauses(updates)
    IN IF ~storeOK \/ Len(clauses) = 0 \/ AssignsTwice(clauses) \/ vid \notin DOMAIN versions
       THEN [err |-> ErrUpdateVersion, rows |-> versions]
       ELSE [err |-> NoErr,
             rows |-> [versions EXCEPT ![vid] = ApplyClauses(versions[vid], clauses)]]

\* UpdateVersion as a function of the table: the error it returns and the
\* table it leaves.
UpdateVersion(vid, updates, storeOK) ==
    LET clauses == SetClauses(updates)
    IN IF Len(clauses) = 0
       THEN [err |-> ErrNoFields, rows |-> versions]
       ELSE IF ~storeOK \/ AssignsTwice(clauses) \/ vid \notin DOMAIN versions
       THEN [err |-> ErrUpdateVersion, rows |-> versions]
       ELSE [err |-> NoErr,
             rows |-> [versions EXCEPT ![vid] = ApplyClauses(versions[vid], clauses)]]

\* DeleteVersion not looking at the number of rows deleted.
DeleteVersionAnyCount(vid, storeOK) ==
    IF ~storeOK THEN [err |-> ErrDeleteVersion, rows |-> versions]
    ELSE [err |-> NoErr, rows |-> [i \in DOMAIN versions \ {vid} |-> versions[i]]]

\* DeleteVersion as a function of the table: the error it returns and the
\* table it leaves.
DeleteVersion(vid, storeOK) ==
    LET rowsAffected == IF storeOK /\ vid \in DOMAIN versions THEN 1 ELSE 0
    IN IF ~storeOK THEN [err |-> ErrDeleteVersion, rows |-> versions]
       ELSE IF rowsAffected = 0 THEN [err |-> ErrDeleteNotFound, rows |-> versions]
       ELSE [err |-> NoErr, rows |-> [i \in DOMAIN versions \ {vid} |-> versions[i]]]

\* The orders in which ORDER BY version_number DESC may hand back the rows
\* with the given ids (rows with equal numbers come in any order).
OrderByVersionNumberDesc(ids) ==
    {order \in [1..Cardinality(ids) -> ids] :
        /\ \A i, j \in DOMAIN order : i # j => order[i] # order[j]
        /\ \A i, j \in DOMAIN order :
               i < j => versions[order[i]].version_number >= versions[order[j]].version_number}

\* ListVersions without its WHERE app_id = $1.
ListVersionsAllApps(app) ==
    {[i \in DOMAIN order |-> versions[order[i]]] :
        order \in OrderByVersionNumberDesc(DOMAIN versions)}

\* ListVersions: the results the SELECT may hand back.
ListVersions(app) ==
    {[i \in DOMAIN order |-> versions[order[i]]] :
        order \in OrderByVersionNumberDesc(VersionsOf(app))}

----------------------------------------------------------------------------
\* PromoteVersion's checks and writes.
\* ValidateVersion letting an already promoted version through.
ValidateVersionLax(version) ==
    IF version.status # "completed" /\ version.status # "promoted" THEN ErrInvalidState
    ELSE IF IsNilOrEmpty(version.vercel_deploy_id) THEN ErrMissingDeployment
    ELSE NoErr

\* ValidateVersion checking the deployment id before the status.
ValidateVersionSwapped(version) ==
    IF IsNilOrEmpty(version.vercel_deploy_id) THEN ErrMissingDeployment
    ELSE IF version.status # "completed" THEN ErrInvalidState
    ELSE NoErr

ValidateVersion(version) ==
    IF version.status # "completed" THEN ErrInvalidState
    ELSE IF IsNilOrEmpty(version.vercel_deploy_id) THEN ErrMissingDeployment
    ELSE NoErr

ValidateApp(project) ==
    IF IsNilOrEmpty(project) THEN ErrMissingProject ELSE NoErr

\* ProdVersionOf writing the version's id in place of its number.
ProdVersionOfId(version) == Ptr(version.id)

ProdVersionOf(version) == Ptr(version.version_number)

\* PromotedUpdate leaving the status as it was.
PromotedUpdateStale == "status" :> Str("completed")

PromotedUpdate == "status" :> Str("promoted")

----------------------------------------------------------------------------
\* Handler-local state.
Blank ==
    [op |-> "none", vid |-> 0, app |-> "", version |-> Nil, project |-> Nil, maxVersion |-> 0,
     row |-> Nil]

\* The last value a handler returned to its caller.
Reply(op, arg, err, val) == [op |-> op, arg |-> arg, err |-> err, val |-> val]
NoReply == Reply("none", <<>>, NoErr, Nil)

\* A background task of an app: the position of extractConfigAndSetupApp and
\* of generateAndUploadLogo, and their locals.
NoTask == [setup |-> "none", logo |-> "none", appConfig |-> Nil, ownerEmail |-> ""]

\* The domain namer's call: its inputs and its result.
NoCall == [appName |-> <<>>, appID |-> <<>>, domain |-> Nil]

Callable(p) == pc[p] = "idle"
Running(p) == pc[p] # "idle"

\* The PromoteVersion calls that have run back to back, each without a step of
\* any other call in between: at most the last two, each with its outcome
\* ("running", the error returned, or the statement it crashed before) and
\* the platform's answer when the last step was the platform call.
Call(p, vid, out, resp) == [p |-> p, vid |-> vid, out |-> out, resp |-> resp]

TrailCall(p, vid, out) ==
    LET prev == IF trail # <<>> /\ trail[Len(trail)].out # "running"
                THEN <<[trail[Len(trail)] EXCEPT !.resp = NoResp]>> ELSE <<>>
    IN prev \o <<Call(p, vid, out, NoResp)>>

TrailStep(p, out, resp) ==
    IF trail # <<>> /\ trail[Len(trail)].p = p /\ trail[Len(trail)].out = "running"
    THEN [trail EXCEPT ![Len(trail)] = Call(p, @.vid, out, resp)]
    ELSE <<>>

Return(p) ==
    /\ pc' = [pc EXCEPT ![p] = "idle"]
    /\ loc' = [loc EXCEPT ![p] = Blank]

Goto(p, label, l) ==
    /\ pc' = [pc EXCEPT ![p] = label]
    /\ loc' = [loc EXCEPT ![p] = l]

----------------------------------------------------------------------------
\* The apps rows exist and no version does.  The first app has no project on
\* the deployment platform yet, an empty project id, or its project; every
\* other app has its project.
Init ==
    /\ versions = <<>>
    /\ apps \in {[a \in AppIds |->
                     [NewApp(a, Owner, Description) EXCEPT
                         !.vercel_project_id = IF a = FirstApp THEN project
                                               ELSE Ptr(ProjectOf(a))]] :
                  project \in {Nil, Ptr(""), Ptr(ProjectOf(FirstApp))}}
    /\ production = [project \in Projects |-> ""]
    /\ created = <<>>
    /\ pc = [p \in Procs |-> "idle"]
    /\ loc = [p \in Procs |-> Blank]
    /\ trail = <<>>
    /\ reply = NoReply
    /\ tasks = [a \in AppIds |-> NoTask]
    /\ stages = [a \in AppIds |-> <<>>]
    /\ registry = <<>>
    /\ namer = NoCall

----------------------------------------------------------------------------
\* CreateVersion: read the latest version number, then insert.
CreateVersionCall(p, app, storeOK) ==
    /\ Callable(p)
    /\ Len(created) + Cardinality({q \in Procs : pc[q] = "insert"}) < MaxVersions
    /\ IF storeOK
       THEN Goto(p, "insert", [Blank EXCEPT !.op = "CreateVersion", !.app = app,
                                            !.maxVersion = MaxVersionNumber(app)])
       ELSE Return(p)
    /\ trail' = <<>>
    /\ UNCHANGED <<versions, apps, production, created>>

CreateVersionInsert(p, storeOK) ==
    /\ pc[p] = "insert"
    /\ LET id == Len(created) + 1
           row == NewVersion(id, loc[p].app, NextVersionNumber(loc[p].maxVersion))
       IN IF storeOK
          THEN /\ versions' = [i \in DOMAIN versions \cup {id} |->
                                  IF i = id THEN row ELSE versions[i]]
               /\ created' = Append(created, [app_id |-> row.app_id,
                                              version_number |-> row.version_number])
          ELSE UNCHANGED <<versions, created>>
    /\ Return(p)
    /\ trail' = <<>>
    /\ UNCHANGED <<apps, production>>

UpdateVersionCall(p, vid, updates, storeOK) ==
    /\ Callable(p)
    /\ versions' = UpdateVersion(vid, updates, storeOK).rows
    /\ Return(p)
    /\ trail' = <<>>
    /\ UNCHANGED <<apps, production, created>>

DeleteVersionCall(p, vid, storeOK) ==
    /\ Callable(p)
    /\ versions' = DeleteVersion(vid, storeOK).rows
    /\ Return(p)
    /\ trail' = <<>>
    /\ UNCHANGED <<apps, production, created>>

ListVersionsCall(p, app, storeOK) ==
    /\ Callable(p)
    /\ IF storeOK
       THEN \E result \in ListVersions(app) :
               reply' = Reply("ListVersions", [app |-> app], NoErr, Ptr(result))
       ELSE reply' = Reply("ListVersions", [app |-> app], ErrListVersions, Nil)
    /\ Return(p)
    /\ trail' = <<>>
    /\ UNCHANGED <<versions, apps, production, created, tasks, stages, registry, namer>>

----------------------------------------------------------------------------
\* PromoteVersion, one action per store statement or platform call.
PromoteVersionCall(p, vid, storeOK) ==
    /\ Callable(p)
    /\ LET found == storeOK /\ vid \in DOMAIN versions
           err == IF ~storeOK THEN ErrGetVersionStore
                  ELSE IF ~found THEN ErrNotFound
                  ELSE ValidateVersion(versions[vid])
       IN IF err # NoErr
          THEN Return(p) /\ trail' = TrailCall(p, vid, err)
          ELSE /\ Goto(p, "fetchApp", [Blank EXCEPT !.op = "PromoteVersion", !.vid = vid,
                                                    !.version = Ptr(versions[vid]),
                                                    !.app = versions[vid].app_id])
               /\ trail' = TrailCall(p, vid, "running")
    /\ UNCHANGED <<versions, apps, production, created>>

PromoteFetchApp(p, storeOK) ==
    /\ pc[p] = "fetchApp"
    /\ LET project == apps[loc[p].app].vercel_project_id
           err == IF ~storeOK THEN ErrFetchApp ELSE ValidateApp(project)
       IN IF err # NoErr
          THEN Return(p) /\ trail' = TrailStep(p, err, NoResp)
          ELSE /\ Goto(p, "callVercel", [loc[p] EXCEPT !.project = project])
               /\ trail' = TrailStep(p, "running", NoResp)
    /\ UNCHANGED <<versions, apps, production, created>>

PromoteCallVercel(p, resp) ==
    /\ pc[p] = "callVercel"
    /\ LET project == loc[p].project[1]
           deployment == loc[p].version[1].vercel_deploy_id[1]
       IN /\ resp \in PlatformResponses(project, deployment)
          /\ production' = IF resp \in RespPromoted
                           THEN [production EXCEPT ![project] = deployment]
                           ELSE production
    /\ IF PromoteDeployment(resp) # NoErr
       THEN Return(p) /\ trail' = TrailStep(p, ErrPlatform, resp)
       ELSE Goto(p, "updateApp", loc[p]) /\ trail' = TrailStep(p, "running", resp)
    /\ UNCHANGED <<versions, apps, created>>

\* PromoteUpdateApp writing the logo column along with prod_version.
PromoteUpdateAppClearsLogo(p, storeOK) ==
    /\ pc[p] = "updateApp"
    /\ IF storeOK
       THEN /\ apps' = [apps EXCEPT ![loc[p].app].prod_version = ProdVersionOf(loc[p].version[1]),
                                    ![loc[p].app].logo = Nil]
            /\ Goto(p, "updateVersion", loc[p])
            /\ trail' = TrailStep(p, "running", NoResp)
       ELSE /\ Return(p)
            /\ trail' = TrailStep(p, ErrUpdateApp, NoResp)
            /\ UNCHANGED apps
    /\ UNCHANGED <<versions, production, created>>

PromoteUpdateApp(p, storeOK) ==
    /\ pc[p] = "updateApp"
    /\ IF storeOK
       THEN /\ apps' = [apps EXCEPT ![loc[p].app].prod_version = ProdVersionOf(loc[p].version[1])]
            /\ Goto(p, "updateVersion", loc[p])
            /\ trail' = TrailStep(p, "running", NoResp)
       ELSE /\ Return(p)
            /\ trail' = TrailStep(p, ErrUpdateApp, NoResp)
            /\ UNCHANGED apps
    /\ UNCHANGED <<versions, production, created>>

PromoteUpdateVersion(p, storeOK) ==
    /\ pc[p] = "updateVersion"
    /\ LET r == UpdateVersion(loc[p].vid, PromotedUpdate, storeOK)
       IN /\ versions' = r.rows
          /\ trail' = TrailStep(p, r.err, NoResp)
    /\ Return(p)
    /\ UNCHANGED <<apps, production, created>>

\* The handler's process dies between two statements.
Crash(p) ==
    /\ Running(p)
    /\ Return(p)
    /\ trail' = IF loc[p].op = "PromoteVersion"
                THEN TrailStep(p, "crashed before " \o pc[p], NoResp) ELSE <<>>
    /\ UNCHANGED <<versions, apps, production, created>>

----------------------------------------------------------------------------
\* The field sets callers send to UpdateVersion: every status on its own, the
\* build worker's report of a finished build, an empty deployment id, and the
\* empty field set.
UpdateInputs(vid) ==
    {"status" :> Str(s) : s \in Statuses}
        \cup {("status" :> Str("completed")) @@ ("vercel_deploy_id" :> Str(DeployID(vid))),
              "vercel_deploy_id" :> Str(""),
              <<>>}

\* The build worker's reports.
WorkerInputs(vid) ==
    {"status" :> Str("building"),
     ("status" :> Str("completed")) @@ ("vercel_deploy_id" :> Str(DeployID(vid))),
     "status" :> Str("error")}

\* One request at a time: versions of the first app are created, updated,
\* deleted and promoted; any store statement of a promotion may fail, the
\* platform may refuse, and the handler may die between two statements.
Handler == CHOOSE p \in Procs : \A q \in Procs : p <= q

Next ==
    \/ CreateVersionCall(Handler, FirstApp, TRUE) /\ UNCHANGED setupVars
    \/ CreateVersionInsert(Handler, TRUE) /\ UNCHANGED setupVars
    \/ \E vid \in VersionIds : \E updates \in UpdateInputs(vid) :
          UpdateVersionCall(Handler, vid, updates, TRUE) /\ UNCHANGED setupVars
    \/ \E vid \in VersionIds : DeleteVersionCall(Handler, vid, TRUE) /\ UNCHANGED setupVars
    \/ \E vid \in VersionIds, storeOK \in BOOLEAN : PromoteVersionCall(Handler, vid, storeOK) /\ UNCHANGED setupVars
    \/ \E storeOK \in BOOLEAN : PromoteFetchApp(Handler, storeOK) /\ UNCHANGED setupVars
    \/ \E resp \in Responses : PromoteCallVercel(Handler, resp) /\ UNCHANGED setupVars
    \/ \E storeOK \in BOOLEAN : PromoteUpdateApp(Handler, storeOK) /\ UNCHANGED setupVars
    \/ \E storeOK \in BOOLEAN : PromoteUpdateVersion(Handler, storeOK) /\ UNCHANGED setupVars
    \/ Crash(Handler) /\ UNCHANGED setupVars

Spec == Init /\ [][Next]_vars

\* Concurrent requests, no faults: every store statement succeeds and no
\* handler dies; the statements of concurrent handlers interleave freely.
ConcurrentNext ==
    \/ \E p \in Procs, app \in AppIds : CreateVersionCall(p, app, TRUE) /\ UNCHANGED setupVars
    \/ \E p \in Procs : CreateVersionInsert(p, TRUE) /\ UNCHANGED setupVars
    \/ \E p \in Procs, vid \in VersionIds : \E updates \in WorkerInputs(vid) :
          UpdateVersionCall(p, vid, updates, TRUE) /\ UNCHANGED setupVars
    \/ \E p \in Procs, vid \in VersionIds : DeleteVersionCall(p, vid, TRUE) /\ UNCHANGED setupVars
    \/ \E p \in Procs, vid \in VersionIds : PromoteVersionCall(p, vid, TRUE) /\ UNCHANGED setupVars
    \/ \E p \in Procs : PromoteFetchApp(p, TRUE) /\ UNCHANGED setupVars
    \/ \E p \in Procs, resp \in Responses : PromoteCallVercel(p, resp) /\ UNCHANGED setupVars
    \/ \E p \in Procs : PromoteUpdateApp(p, TRUE) /\ UNCHANGED setupVars
    \/ \E p \in Procs : PromoteUpdateVersion(p, TRUE) /\ UNCHANGED setupVars

ConcurrentSpec == Init /\ [][ConcurrentNext]_vars

----------------------------------------------------------------------------
\* PromoteVersion as its caller sees it: the caller notes each app's
\* prod_version when it makes the call and gets the call's error back.  One
\* request at a time; any store statement of a promotion may fail and the
\* platform may refuse.
Outcome(t) == IF t = <<>> THEN "running" ELSE t[Len(t)].out

PromoteVersionAsked(p, vid, storeOK) ==
    /\ PromoteVersionCall(p, vid, storeOK)
    /\ reply' = Reply("PromoteVersion",
                      [vid |-> vid, before |-> [a \in DOMAIN apps |-> apps[a].prod_version]],
                      Outcome(trail'), Nil)
    /\ UNCHANGED <<tasks, stages, registry, namer>>

PromoteAnswered == reply' = [reply EXCEPT !.err = Outcome(trail')]

PromoteNext ==
    \/ CreateVersionCall(Handler, FirstApp, TRUE) /\ UNCHANGED setupVars
    \/ CreateVersionInsert(Handler, TRUE) /\ UNCHANGED setupVars
    \/ \E vid \in VersionIds : \E updates \in WorkerInputs(vid) :
          UpdateVersionCall(Handler, vid, updates, TRUE) /\ UNCHANGED setupVars
    \/ \E vid \in VersionIds : DeleteVersionCall(Handler, vid, TRUE) /\ UNCHANGED setupVars
    \/ \E vid \in VersionIds, storeOK \in BOOLEAN : PromoteVersionAsked(Handler, vid, storeOK)
    \/ \E storeOK \in BOOLEAN :
          PromoteFetchApp(Handler, storeOK) /\ PromoteAnswered
              /\ UNCHANGED <<tasks, stages, registry, namer>>
    \/ \E resp \in Responses :
          PromoteCallVercel(Handler, resp) /\ PromoteAnswered
              /\ UNCHANGED <<tasks, stages, registry, namer>>
    \/ \E storeOK \in BOOLEAN :
          PromoteUpdateApp(Handler, storeOK) /\ PromoteAnswered
              /\ UNCHANGED <<tasks, stages, registry, namer>>
    \/ \E storeOK \in BOOLEAN :
          PromoteUpdateVersion(Handler, storeOK) /\ PromoteAnswered
              /\ UNCHANGED <<tasks, stages, registry, namer>>

PromoteSpec == Init /\ [][PromoteNext]_vars

----------------------------------------------------------------------------
\* The version service's calls with the value each hands back to its caller.
CreateVersionFailed(p, app) ==
    /\ CreateVersionCall(p, app, FALSE)
    /\ reply' = Reply("CreateVersion", [app |-> app], ErrMaxVersion, Nil)
    /\ UNCHANGED <<tasks, stages, registry, namer>>

CreateVersionRead(p, app) ==
    /\ CreateVersionCall(p, app, TRUE)
    /\ UNCHANGED setupVars

CreateVersionReplied(p, storeOK) ==
    /\ CreateVersionInsert(p, storeOK)
    /\ reply' = IF storeOK
                THEN Reply("CreateVersion", [app |-> loc[p].app], NoErr,
                           Ptr(versions'[Len(created')]))
                ELSE Reply("CreateVersion", [app |-> loc[p].app], ErrCreateVersion, Nil)
    /\ UNCHANGED <<tasks, stages, registry, namer>>

UpdateVersionReplied(p, vid, updates, storeOK) ==
    /\ UpdateVersionCall(p, vid, updates, storeOK)
    /\ LET r == UpdateVersion(vid, updates, storeOK)
       IN reply' = Reply("UpdateVersion", [vid |-> vid, updates |-> updates], r.err,
                         IF r.err = NoErr THEN Ptr(r.rows[vid]) ELSE Nil)
    /\ UNCHANGED <<tasks, stages, registry, namer>>

DeleteVersionReplied(p, vid, storeOK) ==
    /\ DeleteVersionCall(p, vid, storeOK)
    /\ reply' = Reply("DeleteVersion", [vid |-> vid], DeleteVersion(vid, storeOK).err, Nil)
    /\ UNCHANGED <<tasks, stages, registry, namer>>

\* The field sets sent to UpdateVersion: none, an unrecognized key, a value of
\* a type the field does not take, the build worker's reports, the legacy
\* keys, and a key together with its legacy alias.
FieldSets(vid) ==
    {<<>>,
     "priority" :> Str("high"),
     "error_message" :> Str("boom"),
     "status" :> Str("building"),
     ("status" :> Str("completed")) @@ ("vercel_deploy_id" :> Str(DeployID(vid)))
         @@ ("vercel_url" :> Str("https://v.example")) @@ ("s3_code_path" :> Str("code/v"))
         @@ ("build_log" :> Str("built")),
     ("status" :> Str("error")) @@ ("error_message" :> StrPtr(Ptr("boom")))
         @@ ("priority" :> Str("high")) @@ ("build_log" :> StrPtr(Ptr("lost"))),
     ("deploy_url" :> Str("https://legacy.example")) @@ ("s3_key" :> Str("legacy/v")),
     ("vercel_url" :> Str("https://v.example")) @@ ("deploy_url" :> Str("https://legacy.example"))}

\* One request at a time on the versions of both apps; any store statement
\* may fail.
StoreNext ==
    \/ \E app \in AppIds : CreateVersionFailed(Handler, app)
    \/ \E app \in AppIds : CreateVersionRead(Handler, app)
    \/ \E storeOK \in BOOLEAN : CreateVersionReplied(Handler, storeOK)
    \/ \E vid \in VersionIds, storeOK \in BOOLEAN : \E updates \in FieldSets(vid) :
          UpdateVersionReplied(Handler, vid, updates, storeOK)
    \/ \E vid \in VersionIds, storeOK \in BOOLEAN : DeleteVersionReplied(Handler, vid, storeOK)
    \/ \E app \in AppIds, storeOK \in BOOLEAN : ListVersionsCall(Handler, app, storeOK)

\* The apps rows exist, each with its project.
StoreInit == Init /\ \A a \in AppIds : apps[a].vercel_project_id = Ptr(ProjectOf(a))

StoreSpec == StoreInit /\ [][StoreNext]_vars

----------------------------------------------------------------------------
\* CreateApp: insert the provisional row, launch the setup task, return the
\* row as inserted.
Stage(a, outcome) == stages' = [stages EXCEPT ![a] = Append(@, outcome)]
Recorded(a, outcome) == \E i \in 1..Len(stages[a]) : stages[a][i] = outcome

CreateAppCall(p, appID, userID, description, storeOK) ==
    /\ Callable(p)
    /\ appID \notin DOMAIN apps /\ stages[appID] = <<>>
    /\ Cardinality({a \in AppIds : stages[a] # <<>>}) < MaxApps
    /\ IF storeOK
       THEN /\ apps' = [a \in DOMAIN apps \cup {appID} |->
                           IF a = appID THEN NewApp(appID, userID, description) ELSE apps[a]]
            /\ Goto(p, "goSetup", [Blank EXCEPT !.op = "CreateApp", !.app = appID,
                                                !.row = Ptr(NewApp(appID, userID, description))])
            /\ Stage(appID, "inserted")
            /\ UNCHANGED reply
       ELSE /\ reply' = Reply("CreateApp", [app |-> appID], ErrCreateApp, Nil)
            /\ Return(p)
            /\ UNCHANGED <<apps, stages>>
    /\ UNCHANGED <<versions, production, created, trail, tasks, registry, namer>>

CreateAppGo(p) ==
    /\ pc[p] = "goSetup"
    /\ tasks' = [tasks EXCEPT ![loc[p].app] = [NoTask EXCEPT !.setup = "extract"]]
    /\ Stage(loc[p].app, "launched")
    /\ Goto(p, "returnApp", loc[p])
    /\ UNCHANGED <<versions, apps, production, created, trail, reply, registry, namer>>

\* CreateApp returning only once the setup task has ended.
CreateAppReturnWaits(p) ==
    /\ pc[p] = "returnApp"
    /\ tasks[loc[p].app].setup = "done"
    /\ reply' = Reply("CreateApp", [app |-> loc[p].app], NoErr, loc[p].row)
    /\ Stage(loc[p].app, "responded")
    /\ Return(p)
    /\ UNCHANGED <<versions, apps, production, created, trail, tasks, registry, namer>>

CreateAppReturn(p) ==
    /\ pc[p] = "returnApp"
    /\ reply' = Reply("CreateApp", [app |-> loc[p].app], NoErr, loc[p].row)
    /\ Stage(loc[p].app, "responded")
    /\ Return(p)
    /\ UNCHANGED <<versions, apps, production, created, trail, tasks, registry, namer>>

DeleteAppCall(p, appID, userID, storeOK) ==
    /\ Callable(p)
    /\ LET rowsAffected == IF storeOK /\ appID \in DOMAIN apps /\ apps[appID].user_id = userID
                           THEN 1 ELSE 0
           err == IF ~storeOK THEN ErrDeleteApp
                  ELSE IF rowsAffected = 0 THEN ErrAppNotFound ELSE NoErr
       IN /\ apps' = IF rowsAffected = 0 THEN apps
                     ELSE [a \in DOMAIN apps \ {appID} |-> apps[a]]
          /\ reply' = Reply("DeleteApp", [app |-> appID], err, Nil)
    /\ Return(p)
    /\ UNCHANGED <<versions, production, created, trail, tasks, stages, registry, namer>>

----------------------------------------------------------------------------
\* extractConfigAndSetupApp, one action per external call or store statement.
SetupAt(a, label) == tasks[a].setup = label
SetupGoto(a, label) == tasks' = [tasks EXCEPT ![a].setup = label]

\* SetupExtract launching the asset task at once.
SetupExtractLaunchesLogo(a, r) ==
    /\ SetupAt(a, "extract")
    /\ tasks' = [tasks EXCEPT ![a].setup = "updateApp",
                              ![a].appConfig = Ptr(ResolvedConfig(r)),
                              ![a].logo = "generate"]
    /\ Stage(a, IF ExtractAppConfig(r).err # NoErr THEN "extract failed" ELSE "extracted")
    /\ UNCHANGED <<versions, apps, production, created, pc, loc, trail, reply, registry, namer>>

SetupExtract(a, r) ==
    /\ SetupAt(a, "extract")
    /\ tasks' = [tasks EXCEPT ![a].setup = "updateApp",
                              ![a].appConfig = Ptr(ResolvedConfig(r))]
    /\ Stage(a, IF ExtractAppConfig(r).err # NoErr THEN "extract failed" ELSE "extracted")
    /\ UNCHANGED <<versions, apps, production, created, pc, loc, trail, reply, registry, namer>>

\* SetupUpdateApp marking the app active once its config is written.
SetupUpdateAppActivates(a, storeOK) ==
    /\ SetupAt(a, "updateApp")
    /\ LET appConfig == tasks[a].appConfig[1]
           productionURL == GenerateProductionDomain(appConfig.appName, IdText(a))
       IN IF storeOK
          THEN /\ apps' = IF a \in DOMAIN apps
                          THEN [apps EXCEPT ![a].name = appConfig.appName,
                                            ![a].display_name = Ptr(appConfig.displayName),
                                            ![a].category = Ptr(appConfig.category),
                                            ![a].color_scheme = Ptr(appConfig.colorScheme),
                                            ![a].production_url = Ptr(productionURL),
                                            ![a].status = "active"]
                          ELSE apps
               /\ SetupGoto(a, "ownerEmail")
               /\ Stage(a, "updated")
          ELSE /\ SetupGoto(a, "done")
               /\ Stage(a, "update failed")
               /\ UNCHANGED apps
    /\ UNCHANGED <<versions, production, created, pc, loc, trail, reply, registry, namer>>

SetupUpdateApp(a, storeOK) ==
    /\ SetupAt(a, "updateApp")
    /\ LET appConfig == tasks[a].appConfig[1]
           productionURL == GenerateProductionDomain(appConfig.appName, IdText(a))
       IN IF storeOK
          THEN /\ apps' = IF a \in DOMAIN apps
                          THEN [apps EXCEPT ![a].name = appConfig.appName,
                                            ![a].display_name = Ptr(appConfig.displayName),
                                            ![a].category = Ptr(appConfig.category),
                                            ![a].color_scheme = Ptr(appConfig.colorScheme),
                                            ![a].production_url = Ptr(productionURL)]
                          ELSE apps
               /\ SetupGoto(a, "ownerEmail")
               /\ Stage(a, "updated")
          ELSE /\ SetupGoto(a, "done")
               /\ Stage(a, "update failed")
               /\ UNCHANGED apps
    /\ UNCHANGED <<versions, production, created, pc, loc, trail, reply, registry, namer>>

\* SetupOwnerEmail ending the task when the lookup fails.
SetupOwnerEmailAborts(a, storeOK) ==
    /\ SetupAt(a, "ownerEmail")
    /\ tasks' = [tasks EXCEPT ![a].setup = IF storeOK THEN "registryCreate" ELSE "done",
                              ![a].ownerEmail = IF storeOK THEN OwnerEmail ELSE ""]
    /\ Stage(a, IF storeOK THEN "email resolved" ELSE "email failed")
    /\ UNCHANGED <<versions, apps, production, created, pc, loc, trail, reply, registry, namer>>

SetupOwnerEmail(a, storeOK) ==
    /\ SetupAt(a, "ownerEmail")
    /\ tasks' = [tasks EXCEPT ![a].setup = "registryCreate",
                              ![a].ownerEmail = IF storeOK THEN OwnerEmail ELSE UnknownEmail]
    /\ Stage(a, IF storeOK THEN "email resolved" ELSE "email failed")
    /\ UNCHANGED <<versions, apps, production, created, pc, loc, trail, reply, registry, namer>>

\* SetupRegistryCreate ending the task when app-manager fails.
SetupRegistryCreateAborts(a, ok) ==
    /\ SetupAt(a, "registryCreate")
    /\ registry' = IF ok
                   THEN [b \in DOMAIN registry \cup {a} |->
                            IF b = a THEN [name |-> tasks[a].appConfig[1].appName,
                                           owner_email |-> tasks[a].ownerEmail,
                                           logo |-> Nil]
                            ELSE registry[b]]
                   ELSE registry
    /\ SetupGoto(a, IF ok THEN "goLogo" ELSE "done")
    /\ Stage(a, IF ok THEN "registry created" ELSE "registry create failed")
    /\ UNCHANGED <<versions, apps, production, created, pc, loc, trail, reply, namer>>

SetupRegistryCreate(a, ok) ==
    /\ SetupAt(a, "registryCreate")
    /\ registry' = IF ok
                   THEN [b \in DOMAIN registry \cup {a} |->
                            IF b = a THEN [name |-> tasks[a].appConfig[1].appName,
                                           owner_email |-> tasks[a].ownerEmail,
                                           logo |-> Nil]
                            ELSE registry[b]]
                   ELSE registry
    /\ SetupGoto(a, "goLogo")
    /\ Stage(a, IF ok THEN "registry created" ELSE "registry create failed")
    /\ UNCHANGED <<versions, apps, production, created, pc, loc, trail, reply, namer>>

SetupGoLogo(a) ==
    /\ SetupAt(a, "goLogo")
    /\ tasks' = [tasks EXCEPT ![a].setup = "done", ![a].logo = "generate"]
    /\ Stage(a, "logo launched")
    /\ UNCHANGED <<versions, apps, production, created, pc, loc, trail, reply, registry, namer>>

----------------------------------------------------------------------------
\* generateAndUploadLogo, one action per external call or store statement.
LogoAt(a, label) == tasks[a].logo = label
LogoGoto(a, label) == tasks' = [tasks EXCEPT ![a].logo = label]

\* LogoCall trying the same call again after a failure.
LogoCallRetries(a, label, next, ok) ==
    /\ LogoAt(a, label)
    /\ LogoGoto(a, IF ok THEN next ELSE label)
    /\ Stage(a, label \o (IF ok THEN " done" ELSE " failed"))
    /\ UNCHANGED <<versions, apps, production, created, pc, loc, trail, reply, registry, namer>>

\* LogoCall going on to the next stage after a failure.
LogoCallGoesOn(a, label, next, ok) ==
    /\ LogoAt(a, label)
    /\ LogoGoto(a, next)
    /\ Stage(a, label \o (IF ok THEN " done" ELSE " failed"))
    /\ UNCHANGED <<versions, apps, production, created, pc, loc, trail, reply, registry, namer>>

\* A stage that calls an external service and writes nothing here.
LogoCall(a, label, next, ok) ==
    /\ LogoAt(a, label)
    /\ LogoGoto(a, IF ok THEN next ELSE "done")
    /\ Stage(a, label \o (IF ok THEN " done" ELSE " failed"))
    /\ UNCHANGED <<versions, apps, production, created, pc, loc, trail, reply, registry, namer>>

LogoGenerate(a, ok) == LogoCall(a, "generate", "download", ok)
LogoDownload(a, ok) == LogoCall(a, "download", "upload", ok)
LogoUpload(a, ok) == LogoCall(a, "upload", "updateLogo", ok)

LogoUpdateApp(a, storeOK) ==
    /\ LogoAt(a, "updateLogo")
    /\ apps' = IF storeOK /\ a \in DOMAIN apps
               THEN [apps EXCEPT ![a].logo = Ptr(LogoURL(a))] ELSE apps
    /\ LogoGoto(a, IF storeOK THEN "registryUpdate" ELSE "done")
    /\ Stage(a, IF storeOK THEN "logo updated" ELSE "logo update failed")
    /\ UNCHANGED <<versions, production, created, pc, loc, trail, reply, registry, namer>>

\* LogoRegistryUpdate waiting for the registry to hold the record.
LogoRegistryUpdateWaits(a, ok) ==
    /\ LogoAt(a, "registryUpdate")
    /\ a \in DOMAIN registry
    /\ registry' = IF ok
                   THEN [registry EXCEPT ![a].name = tasks[a].appConfig[1].appName,
                                         ![a].logo = Ptr(LogoURL(a))]
                   ELSE registry
    /\ LogoGoto(a, "done")
    /\ Stage(a, IF ok THEN "registry updated" ELSE "registry update failed")
    /\ UNCHANGED <<versions, apps, production, created, pc, loc, trail, reply, namer>>

\* app-manager update succeeds only on a record the registry holds.
LogoRegistryUpdate(a, ok) ==
    /\ LogoAt(a, "registryUpdate")
    /\ ok => a \in DOMAIN registry
    /\ registry' = IF ok
                   THEN [registry EXCEPT ![a].name = tasks[a].appConfig[1].appName,
                                         ![a].logo = Ptr(LogoURL(a))]
                   ELSE registry
    /\ LogoGoto(a, "done")
    /\ Stage(a, IF ok THEN "registry updated" ELSE "registry update failed")
    /\ UNCHANGED <<versions, apps, production, created, pc, loc, trail, reply, namer>>

\* No row in any table, no request and no task under way.
Empty ==
    /\ versions = <<>>
    /\ apps = <<>>
    /\ production = [project \in Projects |-> ""]
    /\ created = <<>>
    /\ pc = [p \in Procs |-> "idle"]
    /\ loc = [p \in Procs |-> Blank]
    /\ trail = <<>>
    /\ reply = NoReply
    /\ tasks = [a \in AppIds |-> NoTask]
    /\ stages = [a \in AppIds |-> <<>>]
    /\ registry = <<>>

\* Apps are created and deleted one request at a time while the background
\* tasks of the created apps run; every external call and every store
\* statement may fail.
AppInit == Empty /\ namer = NoCall

AppNext ==
    \/ \E appID \in AppIds, storeOK \in BOOLEAN :
          CreateAppCall(Handler, appID, Owner, Description, storeOK)
    \/ CreateAppGo(Handler)
    \/ CreateAppReturn(Handler)
    \/ \E appID \in AppIds, storeOK \in BOOLEAN : DeleteAppCall(Handler, appID, Owner, storeOK)
    \/ \E a \in AppIds, r \in GeminiReplies : SetupExtract(a, r)
    \/ \E a \in AppIds, storeOK \in BOOLEAN : SetupUpdateApp(a, storeOK)
    \/ \E a \in AppIds, storeOK \in BOOLEAN : SetupOwnerEmail(a, storeOK)
    \/ \E a \in AppIds, ok \in BOOLEAN : SetupRegistryCreate(a, ok)
    \/ \E a \in AppIds : SetupGoLogo(a)
    \/ \E a \in AppIds, ok \in BOOLEAN : LogoGenerate(a, ok)
    \/ \E a \in AppIds, ok \in BOOLEAN : LogoDownload(a, ok)
    \/ \E a \in AppIds, ok \in BOOLEAN : LogoUpload(a, ok)
    \/ \E a \in AppIds, storeOK \in BOOLEAN : LogoUpdateApp(a, storeOK)
    \/ \E a \in AppIds, ok \in BOOLEAN : LogoRegistryUpdate(a, ok)

AppSpec == AppInit /\ [][AppNext]_vars

----------------------------------------------------------------------------
\* UpdateApp: one UPDATE ... RETURNING of the fields the map holds with the
\* type the code asserts, on the row of that id (and of that user, when a user
\* is given).  The first successful update that follows a failed registry
\* create of the app is recorded among the outcomes of the app.
IntVal(n) == [type |-> "int", val |-> n]
FloatVal(n) == [type |-> "float64", val |-> n]

UpdatedApp(row, updates) ==
    LET named == IF Has(updates, "name", "string")
                 THEN [row EXCEPT !.name = updates["name"].val] ELSE row
        described == IF Has(updates, "description", "string")
                     THEN [named EXCEPT !.description = updates["description"].val] ELSE named
        stated == IF Has(updates, "status", "string")
                  THEN [described EXCEPT !.status = updates["status"].val] ELSE described
    IN IF Has(updates, "prod_version", "int")
       THEN [stated EXCEPT !.prod_version = Ptr(updates["prod_version"].val)] ELSE stated

\* The columns UpdateApp's RETURNING clause scans.
Returned(row) ==
    [id |-> row.id, user_id |-> row.user_id, name |-> row.name,
     description |-> row.description, status |-> row.status,
     prod_version |-> row.prod_version]

UpdateAppCall(p, appID, userID, updates, storeOK) ==
    /\ Callable(p)
    /\ LET found == /\ storeOK
                    /\ appID \in DOMAIN apps
                    /\ userID = "" \/ apps[appID].user_id = userID
       IN IF found
          THEN /\ apps' = [apps EXCEPT ![appID] = UpdatedApp(@, updates)]
               /\ reply' = Reply("UpdateApp", [app |-> appID], NoErr,
                                 Ptr(Returned(UpdatedApp(apps[appID], updates))))
               /\ stages' = IF Recorded(appID, "registry create failed")
                               /\ ~Recorded(appID, "app updated")
                            THEN [stages EXCEPT ![appID] = Append(@, "app updated")]
                            ELSE stages
          ELSE /\ reply' = Reply("UpdateApp", [app |-> appID], ErrUpdateAppRow, Nil)
               /\ UNCHANGED <<apps, stages>>
    /\ Return(p)
    /\ UNCHANGED <<versions, production, created, trail, tasks, registry, namer>>

\* The maps the update endpoint and the services pass to UpdateApp.
\* The calls of UpdateApp: with a user or with none, with values of the type
\* the code asserts or of another.
Renamed == <<"N", "e", "w">>
AppUpdates ==
    {[userID |-> Owner, updates |-> "status" :> Str("active")],
     [userID |-> "", updates |-> ("name" :> Str(Renamed)) @@ ("prod_version" :> IntVal(1))],
     [userID |-> Owner, updates |-> ("description" :> IntVal(0)) @@ ("prod_version" :> FloatVal(1))]}

\* The steps of the background tasks of app a.
Background(a) ==
    \/ \E r \in GeminiReplies : SetupExtract(a, r)
    \/ \E storeOK \in BOOLEAN : SetupUpdateApp(a, storeOK)
    \/ \E storeOK \in BOOLEAN : SetupOwnerEmail(a, storeOK)
    \/ \E ok \in BOOLEAN : SetupRegistryCreate(a, ok)
    \/ SetupGoLogo(a)
    \/ \E ok \in BOOLEAN : LogoGenerate(a, ok)
    \/ \E ok \in BOOLEAN : LogoDownload(a, ok)
    \/ \E ok \in BOOLEAN : LogoUpload(a, ok)
    \/ \E storeOK \in BOOLEAN : LogoUpdateApp(a, storeOK)
    \/ \E ok \in BOOLEAN : LogoRegistryUpdate(a, ok)

\* Apps are created, updated and deleted one request at a time while the
\* background tasks run.  A launched goroutine and a handler past its store
\* statement are scheduled sooner or later; no request is bound to come.
ManageNext ==
    \/ \E appID \in AppIds, storeOK \in BOOLEAN :
          CreateAppCall(Handler, appID, Owner, Description, storeOK)
    \/ CreateAppGo(Handler)
    \/ CreateAppReturn(Handler)
    \/ \E appID \in AppIds, u \in AppUpdates, storeOK \in BOOLEAN :
          UpdateAppCall(Handler, appID, u.userID, u.updates, storeOK)
    \/ \E appID \in AppIds, storeOK \in BOOLEAN : DeleteAppCall(Handler, appID, Owner, storeOK)
    \/ \E a \in AppIds, r \in GeminiReplies : SetupExtract(a, r)
    \/ \E a \in AppIds, storeOK \in BOOLEAN : SetupUpdateApp(a, storeOK)
    \/ \E a \in AppIds, storeOK \in BOOLEAN : SetupOwnerEmail(a, storeOK)
    \/ \E a \in AppIds, ok \in BOOLEAN : SetupRegistryCreate(a, ok)
    \/ \E a \in AppIds : SetupGoLogo(a)
    \/ \E a \in AppIds, ok \in BOOLEAN : LogoGenerate(a, ok)
    \/ \E a \in AppIds, ok \in BOOLEAN : LogoDownload(a, ok)
    \/ \E a \in AppIds, ok \in BOOLEAN : LogoUpload(a, ok)
    \/ \E a \in AppIds, storeOK \in BOOLEAN : LogoUpdateApp(a, storeOK)
    \/ \E a \in AppIds, ok \in BOOLEAN : LogoRegistryUpdate(a, ok)

ManageSpec ==
    /\ AppInit /\ [][ManageNext]_vars
    /\ WF_vars(CreateAppGo(Handler) \/ CreateAppReturn(Handler))
    /\ \A a \in AppIds : WF_vars(Background(a))

\* Apps are created and deleted while the background tasks run, every
\* external call returning with a result or an error, and every launched
\* goroutine scheduled sooner or later.
PipelineSpec ==
    /\ AppInit /\ [][AppNext]_vars
    /\ WF_vars(CreateAppGo(Handler) \/ CreateAppReturn(Handler))
    /\ \A a \in AppIds : WF_vars(Background(a))

----------------------------------------------------------------------------
\* One apps row written by the setup task, the asset task and a promotion at
\* the same time.  The first app has been created and its setup task launched;
\* it has its project on the deployment platform and a first version, built
\* and deployed.  Every store statement and every external call may fail.
DeployedVersion ==
    [NewVersion(1, FirstApp, NextVersionNumber(0)) EXCEPT
        !.status = "completed", !.vercel_deploy_id = Ptr(DeployID(1))]

RowInit ==
    /\ versions = <<DeployedVersion>>
    /\ apps = (FirstApp :> [NewApp(FirstApp, Owner, Description) EXCEPT
                               !.vercel_project_id = Ptr(ProjectOf(FirstApp))])
    /\ production = [project \in Projects |-> ""]
    /\ created = <<[app_id |-> FirstApp, version_number |-> DeployedVersion.version_number]>>
    /\ pc = [p \in Procs |-> "idle"]
    /\ loc = [p \in Procs |-> Blank]
    /\ trail = <<>>
    /\ reply = Reply("CreateApp", [app |-> FirstApp], NoErr,
                     Ptr(NewApp(FirstApp, Owner, Description)))
    /\ tasks = [a \in AppIds |->
                   IF a = FirstApp THEN [NoTask EXCEPT !.setup = "extract"] ELSE NoTask]
    /\ stages = [a \in AppIds |->
                    IF a = FirstApp THEN <<"inserted", "launched", "responded">> ELSE <<>>]
    /\ registry = <<>>
    /\ namer = NoCall

RowNext ==
    \/ \E vid \in VersionIds, storeOK \in BOOLEAN :
          PromoteVersionCall(Handler, vid, storeOK) /\ UNCHANGED setupVars
    \/ \E storeOK \in BOOLEAN : PromoteFetchApp(Handler, storeOK) /\ UNCHANGED setupVars
    \/ \E resp \in Responses : PromoteCallVercel(Handler, resp) /\ UNCHANGED setupVars
    \/ \E storeOK \in BOOLEAN : PromoteUpdateApp(Handler, storeOK) /\ UNCHANGED setupVars
    \/ \E storeOK \in BOOLEAN : PromoteUpdateVersion(Handler, storeOK) /\ UNCHANGED setupVars
    \/ \E a \in AppIds, r \in GeminiReplies : SetupExtract(a, r)
    \/ \E a \in AppIds, storeOK \in BOOLEAN : SetupUpdateApp(a, storeOK)
    \/ \E a \in AppIds, storeOK \in BOOLEAN : SetupOwnerEmail(a, storeOK)
    \/ \E a \in AppIds, ok \in BOOLEAN : SetupRegistryCreate(a, ok)
    \/ \E a \in AppIds : SetupGoLogo(a)
    \/ \E a \in AppIds, ok \in BOOLEAN : LogoGenerate(a, ok)
    \/ \E a \in AppIds, ok \in BOOLEAN : LogoDownload(a, ok)
    \/ \E a \in AppIds, ok \in BOOLEAN : LogoUpload(a, ok)
    \/ \E a \in AppIds, storeOK \in BOOLEAN : LogoUpdateApp(a, storeOK)
    \/ \E a \in AppIds, ok \in BOOLEAN : LogoRegistryUpdate(a, ok)

RowSpec == RowInit /\ [][RowNext]_vars

----------------------------------------------------------------------------
\* The config extraction on its own: the AI endpoint's reply is drawn, with
\* every field of a parsed config empty or not, and ExtractAppConfig's result
\* is handed back.
AnyConfigs ==
    [appName : {<<>>, Taskly}, displayName : {<<>>, <<"T", "o", " ", "D", "o">>},
     requiresAuth : BOOLEAN, allowSignup : BOOLEAN,
     category : {"", "productivity"}, keywords : {<<>>, <<"tasks", "lists">>},
     colorScheme : {"", "green"}]

ExtractReplies ==
    GeminiReplies
        \cup {[status |-> 200, envelope |-> TRUE, candidates |-> <<[json |-> TRUE, config |-> c]>>] :
                 c \in AnyConfigs}

ExtractAppConfigCall(r) ==
    /\ reply = NoReply
    /\ reply' = Reply("ExtractAppConfig", r, ExtractAppConfig(r).err, ExtractAppConfig(r).config)
    /\ UNCHANGED <<versions, apps, production, created, pc, loc, trail, tasks, stages,
                   registry, namer>>

ExtractNext == \E r \in ExtractReplies : ExtractAppConfigCall(r)

ExtractSpec == AppInit /\ [][ExtractNext]_vars

----------------------------------------------------------------------------
\* The platform client on its own: the platform's answer is drawn, any status
\* with any body or no answer at all, and PromoteDeployment's error is handed
\* back.
AnyResponses ==
    LET parts == {AlreadyProduction, "Already The Current Production Deployment",
                  "conflict"}
        bodies == {<<>>} \cup {<<x>> : x \in parts} \cup {<<x, y>> : x, y \in parts}
    IN  {TransportFailure}
        \cup [status : {200, 201, 202, 204, 301, 400, 401, 403, 404, 409, 429, 500, 503},
              body : bodies]

PromoteDeploymentCall(resp) ==
    /\ reply = NoReply
    /\ reply' = Reply("PromoteDeployment", resp, PromoteDeployment(resp), Nil)
    /\ UNCHANGED <<versions, apps, production, created, pc, loc, trail, tasks, stages,
                   registry, namer>>

PlatformNext == \E resp \in AnyResponses : PromoteDeploymentCall(resp)

PlatformSpec == AppInit /\ [][PlatformNext]_vars

----------------------------------------------------------------------------
\* The domain namer on its own: a name and an identifier are drawn, and
\* GenerateProductionDomain is applied to them.
NameAlphabet == {"M", "y", "1", " ", "\t", "!", "-"}
Texts(alphabet, n) == UNION {[1..k -> alphabet] : k \in 0..n}
ExampleName == <<"M", "y", " ", "C", "o", "o", "l", " ", "A", "p", "p", "!", "!">>
ExampleId ==
    <<"2", "0", "2", "8", "3", "6", "2", "b", "-", "a", "1", "4", "a", "-",
      "4", "3", "a", "c", "-", "8", "7", "d", "8", "-",
      "0", "e", "2", "6", "c", "7", "4", "0", "1", "6", "2", "3">>
Names == Texts(NameAlphabet, MaxNameLen) \cup {ExampleName}
\* Every piece of the identifier's tail, and the identifier.
IdTail == SubSeq(ExampleId, Len(ExampleId) - 8, Len(ExampleId) - 3)
          \o SubSeq(ExampleId, Len(ExampleId) - 13, Len(ExampleId) - 11)
Idents ==
    {SubSeq(IdTail, i, j) : i \in 1..(Len(IdTail) + 1), j \in 0..Len(IdTail)} \cup {ExampleId}

NamerInit ==
    /\ Empty
    /\ namer \in [appName : Names, appID : Idents, domain : {Nil}]

GenerateProductionDomainCall ==
    /\ namer.domain = Nil
    /\ namer' = [namer EXCEPT
                    !.domain = Ptr(GenerateProductionDomain(namer.appName, namer.appID))]
    /\ UNCHANGED <<versions, apps, production, created, pc, loc, trail,
                   reply, tasks, stages, registry>>

NamerNext == GenerateProductionDomainCall

NamerSpec == NamerInit /\ [][NamerNext]_vars

----------------------------------------------------------------------------
\* Vocabulary of the properties.
Last == trail[Len(trail)]
Rejections == {ErrNotFound, ErrInvalidState, ErrMissingDeployment, ErrMissingProject}
Exists(vid) == vid \in DOMAIN versions
AppOf(vid) == versions[vid].app_id
NoDeployment(vid) == IsNilOrEmpty(versions[vid].vercel_deploy_id)
NoProject(vid) == IsNilOrEmpty(apps[AppOf(vid)].vercel_project_id)
Accepted(resp) ==
    \/ resp.status \in {201, 202}
    \/ resp.status = 409 /\ Contains(resp.body, AlreadyProduction)
\* Version vid is promoted in the store and on the platform.
PromotedInStore(vid) ==
    /\ Exists(vid)
    /\ versions[vid].status = "promoted"
    /\ apps[AppOf(vid)].prod_version = Ptr(versions[vid].version_number)
ServedByPlatform(vid) ==
    /\ ~NoProject(vid) /\ ~NoDeployment(vid)
    /\ production[apps[AppOf(vid)].vercel_project_id[1]] = versions[vid].vercel_deploy_id[1]
\* The step is the first statement of a PromoteVersion(vid) call by p.
PromoteCalled(p, vid) ==
    /\ pc[p] = "idle"
    /\ trail' # <<>> /\ trail'[Len(trail')].p = p /\ trail'[Len(trail')].vid = vid
OutOf(p) == trail'[Len(trail')].out

\* C1: a promotion of a missing version, of a version whose status is not
\* `completed`, of one without a deployment id, or for an app without a
\* project id is rejected: the call goes no further than the failed check,
\* the platform is not called, the store and the platform are left as they
\* were, and each of the four errors is returned only in its own case.
C1_RejectedUntouched ==
    /\ [](trail # <<>> /\ Last.out \in Rejections =>
            /\ Last.resp = NoResp
            /\ Last.out = ErrNotFound => ~Exists(Last.vid)
            /\ Last.out = ErrInvalidState =>
                   Exists(Last.vid) /\ versions[Last.vid].status # "completed"
            /\ Last.out = ErrMissingDeployment => Exists(Last.vid) /\ NoDeployment(Last.vid)
            /\ Last.out = ErrMissingProject => Exists(Last.vid) /\ NoProject(Last.vid))
    /\ [][/\ (trail' # <<>> /\ trail'[Len(trail')].out \in Rejections) =>
                UNCHANGED <<versions, apps, production, created>>
          /\ \A p \in Procs, vid \in VersionIds :
                PromoteCalled(p, vid)
                    /\ (~Exists(vid) \/ versions[vid].status # "completed" \/ NoDeployment(vid))
                => OutOf(p) # "running" /\ pc'[p] = "idle"
          /\ \A p \in Procs :
                pc[p] = "fetchApp" /\ IsNilOrEmpty(apps[loc[p].app].vercel_project_id)
                => pc'[p] \in {"fetchApp", "idle"}]_vars

C1_Witness ==
    /\ trail # <<>> /\ Last.out = ErrInvalidState
    /\ versions[Last.vid].status = "promoted"

\* C2: the error of a rejected promotion is that of the first failing check:
\* version exists, then status, then deployment id, then project id.
C2_FirstFailingCheck ==
    /\ [][\A p \in Procs, vid \in VersionIds :
            PromoteCalled(p, vid) =>
                /\ ~Exists(vid) => OutOf(p) \in {ErrNotFound, ErrGetVersionStore}
                /\ Exists(vid) /\ versions[vid].status # "completed" =>
                       OutOf(p) \in {ErrInvalidState, ErrGetVersionStore}
                /\ Exists(vid) /\ versions[vid].status = "completed" /\ NoDeployment(vid) =>
                       OutOf(p) \in {ErrMissingDeployment, ErrGetVersionStore}]_vars
    /\ [](trail # <<>> /\ Last.out = ErrMissingProject =>
            /\ Exists(Last.vid)
            /\ versions[Last.vid].status = "completed"
            /\ ~NoDeployment(Last.vid))

C2_Witness ==
    /\ trail # <<>> /\ Last.out = ErrInvalidState
    /\ versions[Last.vid].status = "pending"
    /\ NoDeployment(Last.vid)
    /\ NoProject(Last.vid)

\* C3: a successful promotion first has the platform serve the version's
\* deployment, then writes the app's prod_version, then the version's status;
\* when it returns, prod_version is the version's number and the status is
\* `promoted`.
C3_OrderedEffects ==
    /\ [](trail # <<>> /\ Last.out = NoErr =>
            PromotedInStore(Last.vid) /\ ServedByPlatform(Last.vid))
    /\ [][/\ production' # production =>
                pc[Handler] = "callVercel" /\ UNCHANGED <<versions, apps>>
          /\ apps' # apps =>
                /\ pc[Handler] = "updateApp"
                /\ UNCHANGED <<versions, production>>
                /\ versions[loc[Handler].vid].status = "completed"
                /\ ServedByPlatform(loc[Handler].vid)
                /\ apps'[AppOf(loc[Handler].vid)].prod_version
                       = Ptr(versions[loc[Handler].vid].version_number)
          /\ pc[Handler] = "updateVersion" /\ versions' # versions =>
                /\ UNCHANGED <<apps, production>>
                /\ apps[AppOf(loc[Handler].vid)].prod_version
                       = Ptr(versions[loc[Handler].vid].version_number)
                /\ versions'[loc[Handler].vid].status = "promoted"]_vars

C3_Witness ==
    /\ trail # <<>> /\ Last.out = NoErr
    /\ PromotedInStore(Last.vid)
    /\ versions[Last.vid].version_number # Last.vid

\* Two PromoteVersion calls on the same version, back to back, the first of
\* which succeeded.
Twice ==
    /\ Len(trail) = 2
    /\ trail[1].out = NoErr
    /\ trail[2].vid = trail[1].vid
    /\ trail[2].out # "running"

\* C4 as stated: the second of two successive promotions of a completed
\* version succeeds too (the store answering its read).
C4_SecondSucceeds ==
    Twice /\ trail[2].out # ErrGetVersionStore => trail[2].out = NoErr

\* C4 as the code has it: the second of two successive promotions is rejected
\* before any platform call, the version being `promoted` by then, and the
\* app's prod_version stays the version's number.
C4_SecondRejected ==
    Twice =>
        /\ trail[2].out \in {ErrInvalidState, ErrGetVersionStore}
        /\ trail[2].resp = NoResp
        /\ PromotedInStore(trail[2].vid)

C4_Witness == Twice /\ trail[2].out = ErrInvalidState

\* C5: once no promotion is in flight, the app's prod_version is the number of
\* the version whose deployment the platform serves (no version deleted).
Quiescent == \A p \in Procs : pc[p] = "idle"
C5_StoreMatchesPlatform ==
    Quiescent /\ DOMAIN versions = 1..Len(created) =>
        \A a \in AppIds :
            ~IsNilOrEmpty(apps[a].vercel_project_id)
                /\ production[apps[a].vercel_project_id[1]] # "" =>
            \E vid \in VersionsOf(a) :
                /\ versions[vid].vercel_deploy_id
                       = Ptr(production[apps[a].vercel_project_id[1]])
                /\ apps[a].prod_version = Ptr(versions[vid].version_number)

\* C6: a promotion that dies between its two writes leaves the version
\* `completed`, prod_version written and the platform serving the deployment;
\* promoting the version again is not rejected, fails only if the platform
\* refuses or the store fails, and, when it returns without error, leaves the
\* version promoted in the store and served by the platform.
DiedBetweenWrites == "crashed before updateVersion"
Reinvoked ==
    /\ Len(trail) = 2
    /\ trail[1].out = DiedBetweenWrites
    /\ trail[2].vid = trail[1].vid
C6_ReinvocationSafe ==
    /\ trail # <<>> /\ Last.out = DiedBetweenWrites =>
            /\ Exists(Last.vid)
            /\ versions[Last.vid].status = "completed"
            /\ apps[AppOf(Last.vid)].prod_version = Ptr(versions[Last.vid].version_number)
            /\ ServedByPlatform(Last.vid)
    /\ Reinvoked =>
            /\ trail[2].out \notin Rejections
            /\ trail[2].out = ErrPlatform => trail[2].resp \in RespRefused
            /\ trail[2].out = NoErr =>
                   PromotedInStore(trail[2].vid) /\ ServedByPlatform(trail[2].vid)

C6_Witness == Reinvoked /\ trail[2].out = NoErr

\* C7: when the platform refuses the promotion (anything but 201, 202 or the
\* 'already production' conflict) PromoteVersion returns the platform error
\* and writes nothing to the store; on 201, 202 and on the 'already
\* production' conflict it goes on to the prod_version write.
C7_PlatformAnswer ==
    [][\A p \in Procs :
        pc[p] = "callVercel" /\ trail' # <<>> /\ trail'[Len(trail')].p = p
            /\ trail'[Len(trail')].resp # NoResp
        => /\ UNCHANGED <<versions, apps, created>>
           /\ IF Accepted(trail'[Len(trail')].resp)
              THEN pc'[p] = "updateApp" /\ OutOf(p) = "running" /\ loc'[p] = loc[p]
              ELSE pc'[p] = "idle" /\ OutOf(p) = ErrPlatform]_vars

C7_Witness ==
    /\ trail # <<>> /\ Last.resp = RespAlready
    /\ pc[Last.p] = "updateApp"

\* C8: the version numbers of an app's versions are pairwise distinct and
\* strictly increasing in creation order.
C8_DistinctIncreasing ==
    \A i, j \in DOMAIN versions :
        i < j /\ versions[i].app_id = versions[j].app_id =>
            versions[i].version_number < versions[j].version_number

\* C9: no version is created with a number that an earlier version of the
\* app, deleted since or not, has held.
C9_NeverRecycled ==
    \A i, j \in 1..Len(created) :
        i < j /\ created[i].app_id = created[j].app_id =>
            created[i].version_number # created[j].version_number

\* C10: every change of a version's status follows an edge of the lifecycle.
Edges ==
    {<<"pending", "building">>, <<"building", "completed">>,
     <<"building", "error">>, <<"completed", "promoted">>}
C10_LifecycleEdges ==
    [][\A vid \in DOMAIN versions \cap DOMAIN versions' :
        versions'[vid].status # versions[vid].status =>
            <<versions[vid].status, versions'[vid].status>> \in Edges]_vars

\* The hostname as the algorithm is stated: lower-case, each run of the given
\* whitespace characters replaced by one hyphen, every character outside
\* [a-z0-9-] stripped, repeated hyphens collapsed, leading and trailing
\* hyphens trimmed, `app` if nothing is left; then a hyphen, the last 6
\* characters of the identifier without its hyphens, and the platform domain.
RECURSIVE HyphenRuns(_, _)
HyphenRuns(text, ws) ==
    IF text = <<>> THEN <<>>
    ELSE IF Head(text) \notin ws THEN <<Head(text)>> \o HyphenRuns(Tail(text), ws)
    ELSE IF Len(text) > 1 /\ text[2] \in ws THEN HyphenRuns(Tail(text), ws)
    ELSE <<"-">> \o HyphenRuns(Tail(text), ws)
Pick(text, idx) ==
    [k \in 1..Cardinality(idx) |->
        text[CHOOSE i \in idx : Cardinality({j \in idx : j < i}) = k - 1]]
Squeezed(text) ==
    Pick(text, {i \in 1..Len(text) : ~(text[i] = "-" /\ i > 1 /\ text[i - 1] = "-")})
Trimmed(text) ==
    LET idx == {i \in 1..Len(text) : text[i] # "-"}
    IN IF idx = {} THEN <<>>
       ELSE SubSeq(text, CHOOSE i \in idx : \A j \in idx : i <= j,
                         CHOOSE i \in idx : \A j \in idx : j <= i)
SlugStated(name, ws) ==
    LET slug == Trimmed(Squeezed(SelectSeq(HyphenRuns(ToLower(name), ws),
                                           LAMBDA c : c \in SlugChars)))
    IN IF slug = <<>> THEN <<"a", "p", "p">> ELSE slug
SuffixStated(id) ==
    LET clean == SelectSeq(id, LAMBDA c : c # "-")
    IN IF Len(clean) < 6 THEN clean ELSE SubSeq(clean, Len(clean) - 5, Len(clean))
DomainStated(name, id, ws) ==
    SlugStated(name, ws) \o <<"-">> \o SuffixStated(id) \o PlatformDomain
ExampleDomain ==
    <<"m", "y", "-", "c", "o", "o", "l", "-", "a", "p", "p", "-",
      "4", "0", "1", "6", "2", "3">> \o PlatformDomain

Replied(op) ==
    /\ reply'.op = op
    /\ \A p \in Procs : pc[p] \in {"idle", "insert"} /\ pc'[p] = "idle"
RecognizedKeys ==
    {"status", "s3_code_path", "vercel_url", "vercel_deploy_id", "build_log",
     "error_message", "deploy_url", "s3_key"}
\* Key is supplied with a value of the type the field takes (a string; a
\* pointer to a string for the error message).
Supplied(updates, key) ==
    /\ key \in DOMAIN updates
    /\ updates[key].type = IF key = "error_message" THEN "*string" ELSE "string"
Frame(vid) ==
    /\ DOMAIN versions' \ {vid} = DOMAIN versions \ {vid}
    /\ \A other \in DOMAIN versions \ {vid} : versions'[other] = versions[other]
    /\ UNCHANGED <<apps, production, created>>

\* C15: UpdateVersion with an empty field set, or with unrecognized keys only,
\* returns the no-fields error and no row, and changes no row of any table.
C15_NoFields ==
    [][Replied("UpdateVersion") /\ DOMAIN reply'.arg.updates \cap RecognizedKeys = {} =>
            /\ reply'.err = ErrNoFields
            /\ reply'.val = Nil
            /\ UNCHANGED <<versions, apps, production, created>>]_vars

C15_Witness ==
    /\ reply.op = "UpdateVersion" /\ reply.err = ErrNoFields
    /\ DOMAIN reply.arg.updates = {"priority"}
    /\ reply.arg.vid \in DOMAIN versions
    /\ versions[reply.arg.vid].status = "completed"

\* C16: an UpdateVersion that succeeds writes each supplied allow-listed field
\* (the legacy deploy_url to the deployment URL, the legacy s3_key to the code
\* path) and returns the row as it now is; the fields not supplied, the id,
\* the app, the number and the creation time, every other row and every other
\* table stay as they were; an unrecognized key, or a value of a type the
\* field does not take, has no effect.
C16_ExactlySupplied ==
    [][Replied("UpdateVersion") /\ reply'.err = NoErr =>
        LET vid == reply'.arg.vid
            u == reply'.arg.updates
            old == versions[vid]
            new == versions'[vid]
            Written(key, legacy, column) ==
                IF Supplied(u, key) THEN new[column] = Ptr(u[key].val)
                ELSE IF Supplied(u, legacy) THEN new[column] = Ptr(u[legacy].val)
                ELSE new[column] = old[column]
        IN /\ vid \in DOMAIN versions /\ vid \in DOMAIN versions'
           /\ Frame(vid)
           /\ reply'.val = Ptr(new)
           /\ new.id = old.id /\ new.app_id = old.app_id
           /\ new.version_number = old.version_number /\ new.created_at = old.created_at
           /\ new.status = IF Supplied(u, "status") THEN u["status"].val ELSE old.status
           /\ Written("s3_code_path", "s3_key", "s3_code_path")
           /\ Written("vercel_url", "deploy_url", "vercel_url")
           /\ Written("vercel_deploy_id", "vercel_deploy_id", "vercel_deploy_id")
           /\ Written("build_log", "build_log", "build_log")
           /\ new.error_message = IF Supplied(u, "error_message")
                                  THEN u["error_message"].val ELSE old.error_message]_vars

C16_Witness ==
    /\ reply.op = "UpdateVersion" /\ reply.err = NoErr
    /\ DOMAIN reply.arg.updates = {"deploy_url", "s3_key"}
    /\ reply.val[1].vercel_url = Ptr("https://legacy.example")
    /\ reply.val[1].status = "error"
    /\ reply.val[1].build_log = Ptr("built")
    /\ Cardinality(DOMAIN versions) = 2

\* C17: DeleteVersion of an id that matches no row returns the not-found error
\* (the store answering) and changes nothing; DeleteVersion of an existing
\* version either fails in the store and changes nothing, or removes that row
\* and leaves every other row as it was.
C17_DeleteExactlyOne ==
    [][Replied("DeleteVersion") =>
        LET vid == reply'.arg.vid
        IN /\ vid \notin DOMAIN versions =>
                /\ reply'.err \in {ErrDeleteNotFound, ErrDeleteVersion}
                /\ UNCHANGED <<versions, apps, production, created>>
           /\ vid \in DOMAIN versions =>
                /\ reply'.err \in {NoErr, ErrDeleteVersion}
                /\ reply'.err = NoErr => DOMAIN versions' = DOMAIN versions \ {vid}
                /\ reply'.err # NoErr => versions' = versions
                /\ Frame(vid)]_vars

C17_Witness ==
    /\ reply.op = "DeleteVersion" /\ reply.err = NoErr
    /\ DOMAIN versions # {}
    /\ \E vid \in DOMAIN versions : versions[vid].status = "completed"

\* The numbers of the versions of an app.
NumbersOf(app) == {versions[i].version_number : i \in VersionsOf(app)}
Inserted(p) ==
    /\ pc[p] = "insert" /\ reply'.op = "CreateVersion" /\ reply'.err = NoErr
    /\ pc'[p] = "idle"

\* C18 as stated: the version CreateVersion inserts is `pending` and numbered
\* one more than the highest number of the app's versions, 0 when it has none.
C18_FirstIsZero ==
    [][\A p \in Procs : Inserted(p) =>
        LET new == reply'.val[1]
            ns == NumbersOf(new.app_id)
        IN /\ new.status = "pending"
           /\ new.version_number =
                  IF ns = {} THEN 0 ELSE (CHOOSE n \in ns : \A m \in ns : m <= n) + 1]_vars

\* C18 as the code has it: the version CreateVersion inserts is `pending`, is
\* the only row added, and is numbered one more than the highest number of
\* the app's versions, the highest number of no versions counting as 0: the
\* first version of an app is number 1.
C18_FirstIsOne ==
    [][\A p \in Procs : Inserted(p) =>
        LET new == reply'.val[1]
            ns == NumbersOf(new.app_id)
        IN /\ new.status = "pending"
           /\ new.app_id = loc[p].app
           /\ new.id \notin DOMAIN versions
           /\ versions'[new.id] = new
           /\ DOMAIN versions' = DOMAIN versions \cup {new.id}
           /\ \A other \in DOMAIN versions : versions'[other] = versions[other]
           /\ UNCHANGED <<apps, production>>
           /\ ns = {} => new.version_number = 1
           /\ ns # {} => /\ new.version_number - 1 \in ns
                         /\ \A m \in ns : m < new.version_number]_vars

C18_Witness ==
    /\ reply.op = "CreateVersion" /\ reply.err = NoErr
    /\ reply.val[1].version_number = 2
    /\ \E i \in DOMAIN versions :
          versions[i].version_number = 1 /\ versions[i].status = "completed"

\* C19: ListVersions returns every version of the app once, no version of
\* another app, the higher version number first.
C19_OwnVersionsNewestFirst ==
    reply.op = "ListVersions" /\ reply.err = NoErr =>
        LET result == reply.val[1]
            app == reply.arg.app
        IN /\ \A k \in DOMAIN result : result[k].app_id = app
           /\ {result[k] : k \in DOMAIN result} = {versions[i] : i \in VersionsOf(app)}
           /\ Len(result) = Cardinality(VersionsOf(app))
           /\ \A j, k \in DOMAIN result :
                 j < k => result[j].version_number > result[k].version_number

C19_Witness ==
    /\ reply.op = "ListVersions" /\ reply.err = NoErr
    /\ Len(reply.val[1]) = 2
    /\ reply.val[1][1].version_number = 2

\* Vocabulary of the setup pipeline's properties.
Occurs(a, outcome) == \E i \in 1..Len(stages[a]) : stages[a][i] = outcome
At(a, outcome) == CHOOSE i \in 1..Len(stages[a]) : stages[a][i] = outcome
HandlerOutcomes == {"inserted", "launched", "responded"}
\* A background stage of app a has ended or is under way.
Started(a) == \E i \in 1..Len(stages[a]) : stages[a][i] \notin HandlerOutcomes
PipelineEnded(a) == tasks[a].setup = "done" /\ tasks[a].logo \in {"none", "done"}
Placeholder(row) ==
    /\ row.name = <<"M", "y", "A", "p", "p">>
    /\ row.display_name = Ptr(<<"M", "y", " ", "A", "p", "p">>)
    /\ row.category = Ptr("other")
    /\ row.color_scheme = Ptr("blue")
    /\ row.status = "building"

\* C11 as stated: in every interleaving the response of CreateApp is produced
\* before any background stage has ended.
C11_ResponseFirst ==
    \A a \in AppIds : Started(a) => Occurs(a, "responded")

\* C11 as the code has it: CreateApp fails exactly when the insert of the
\* provisional row fails; once the row is written it launches the setup task
\* and returns the row without waiting, whatever the task is doing; no
\* background stage starts before the row is written and the task launched; a
\* background step never hands anything to a caller.  (The task, once
\* launched, may run before the response is produced.)
C11_NeverWaits ==
    /\ [](\A p \in Procs :
            /\ pc[p] = "goSetup" => ENABLED CreateAppGo(p)
            /\ pc[p] = "returnApp" => ENABLED CreateAppReturn(p))
    /\ [](reply.op = "CreateApp" =>
            /\ reply.err \in {NoErr, ErrCreateApp}
            /\ reply.err = NoErr =>
                   Occurs(reply.arg.app, "inserted") /\ reply.val # Nil
            /\ reply.err = ErrCreateApp => reply.val = Nil)
    /\ [](\A a \in AppIds :
            /\ tasks[a] # NoTask \/ Started(a) =>
                   /\ Len(stages[a]) >= 2
                   /\ stages[a][1] = "inserted" /\ stages[a][2] = "launched"
            /\ Occurs(a, "responded") => Occurs(a, "launched"))
    /\ [][tasks' # tasks /\ pc' = pc => reply' = reply]_vars

\* The response was produced while the pipeline had already gone past its
\* first stages.
C11_Witness ==
    \E a \in AppIds :
        /\ Occurs(a, "responded") /\ Occurs(a, "updated")
        /\ At(a, "updated") < At(a, "responded")
        /\ reply.op = "CreateApp" /\ reply.err = NoErr

\* C12: whatever the AI endpoint does, the record CreateApp returns has the
\* placeholder name, display name, category and colour and status `building`;
\* and when the extraction failed and the pipeline has ended, the stored name
\* is the fallback MyApp.
C12_PlaceholderAndFallback ==
    /\ reply.op = "CreateApp" /\ reply.err = NoErr => Placeholder(reply.val[1])
    /\ \A a \in AppIds :
          /\ Occurs(a, "extract failed") => Occurs(a, "inserted")
          /\ Occurs(a, "extract failed") /\ PipelineEnded(a) /\ a \in DOMAIN apps =>
                 apps[a].name = <<"M", "y", "A", "p", "p">>

C12_Witness ==
    \E a \in DOMAIN apps :
        /\ Occurs(a, "extract failed") /\ Occurs(a, "updated") /\ PipelineEnded(a)
        /\ Occurs(a, "responded") /\ At(a, "extract failed") < At(a, "responded")
        /\ reply.op = "CreateApp" /\ reply.err = NoErr /\ reply.arg.app = a

\* C13: every app row has a production hostname that is not empty and has
\* lower-case letters, digits, hyphens and dots only.
HostChars == Range(LowerLetters) \cup Digits \cup {"-", "."}
C13_ValidHostname ==
    \A a \in DOMAIN apps :
        /\ apps[a].production_url # Nil
        /\ apps[a].production_url[1] # <<>>
        /\ Range(apps[a].production_url[1]) \subseteq HostChars

C13_Witness ==
    \E a \in DOMAIN apps :
        /\ Occurs(a, "updated")
        /\ "&" \in Range(apps[a].name)
        /\ apps[a].production_url # Ptr(GenerateProductionDomain(MyApp, IdText(a)))

\* C20: when the AI-config update of the row fails, the owner's email is still
\* resolved, the registry create still attempted and the asset stage still
\* launched.
C20_StagesAfterFailedUpdate ==
    \A a \in AppIds :
        Occurs(a, "update failed") /\ tasks[a].setup = "done" =>
            /\ Occurs(a, "email resolved") \/ Occurs(a, "email failed")
            /\ Occurs(a, "registry created") \/ Occurs(a, "registry create failed")
            /\ Occurs(a, "logo launched")

\* The last outcome recorded for app a.
LastStage(a) == IF stages[a] = <<>> THEN "" ELSE stages[a][Len(stages[a])]
Count(a, outcome) == Cardinality({i \in 1..Len(stages[a]) : stages[a][i] = outcome})

\* C21: on any extraction failure the pipeline goes on with the fixed default
\* configuration (MyApp, My App, auth required, signup allowed, other, [app],
\* blue): the failure leaves the task at the row update, the row update
\* writes those values with the hostname computed from MyApp, and the registry
\* record, created and updated, carries the name MyApp.
C21_DefaultOnExtractionFailure ==
    \A a \in AppIds :
        Occurs(a, "extract failed") =>
            /\ tasks[a].appConfig =
                   Ptr([appName |-> <<"M", "y", "A", "p", "p">>,
                        displayName |-> <<"M", "y", " ", "A", "p", "p">>,
                        requiresAuth |-> TRUE, allowSignup |-> TRUE,
                        category |-> "other", keywords |-> <<"app">>,
                        colorScheme |-> "blue"])
            /\ LastStage(a) = "extract failed" => SetupAt(a, "updateApp")
            /\ Occurs(a, "updated") /\ a \in DOMAIN apps =>
                   /\ apps[a].name = <<"M", "y", "A", "p", "p">>
                   /\ apps[a].display_name = Ptr(<<"M", "y", " ", "A", "p", "p">>)
                   /\ apps[a].category = Ptr("other")
                   /\ apps[a].color_scheme = Ptr("blue")
                   /\ apps[a].production_url =
                          Ptr(GenerateProductionDomain(<<"M", "y", "A", "p", "p">>, IdText(a)))
            /\ Occurs(a, "updated") =>
                   \/ SetupAt(a, "ownerEmail") \/ SetupAt(a, "registryCreate")
                   \/ Occurs(a, "registry created") \/ Occurs(a, "registry create failed")
            /\ Occurs(a, "registry created") /\ a \in DOMAIN registry =>
                   registry[a].name = <<"M", "y", "A", "p", "p">>
            /\ Occurs(a, "registry created") \/ Occurs(a, "registry create failed") =>
                   SetupAt(a, "goLogo") \/ Occurs(a, "logo launched")

\* The extraction failed and the pipeline ran to its end with the defaults in
\* the row and in the registry, logo included.
C21_Witness ==
    \E a \in DOMAIN apps :
        /\ Occurs(a, "extract failed") /\ Occurs(a, "registry updated")
        /\ apps[a].name = MyApp /\ registry[a].name = MyApp
        /\ PipelineEnded(a)

\* C22: a failed registry create neither aborts nor retries the pipeline: the
\* create command is run once, the failing call leaves the apps rows and the
\* registry as they were, and the asset stage is launched next.
C22_RegistryCreateFailure ==
    /\ [](\A a \in AppIds :
            /\ Count(a, "registry created") + Count(a, "registry create failed") <= 1
            /\ Occurs(a, "registry create failed") =>
                   /\ SetupAt(a, "goLogo") \/ Occurs(a, "logo launched")
                   /\ SetupAt(a, "goLogo") => ENABLED SetupGoLogo(a)
                   /\ ~SetupAt(a, "registryCreate"))
    /\ [][\A a \in AppIds :
            LastStage(a)' = "registry create failed" /\ stages'[a] # stages[a] =>
                apps' = apps /\ registry' = registry /\ tasks'[a].setup = "goLogo"]_vars

\* The registry create failed and the logo went all the way into the row.
C22_Witness ==
    \E a \in DOMAIN apps :
        /\ Occurs(a, "registry create failed") /\ Occurs(a, "logo updated")
        /\ apps[a].logo = Ptr(LogoURL(a)) /\ a \notin DOMAIN registry

\* C23: a failed image generation, download or upload ends the asset stage and
\* nothing else: the failing call leaves every row and the registry as they
\* were, the logo of the row stays null, no logo write and no registry update
\* follows, and what the earlier stages wrote stays.
AssetFailures == {"generate failed", "download failed", "upload failed"}
AssetFailed(a) == \E f \in AssetFailures : Occurs(a, f)
C23_AssetFailure ==
    /\ [](\A a \in AppIds :
            AssetFailed(a) =>
                /\ LogoAt(a, "done") /\ LastStage(a) \in AssetFailures \cup HandlerOutcomes
                /\ ~Occurs(a, "logo updated") /\ ~Occurs(a, "logo update failed")
                /\ ~Occurs(a, "registry updated") /\ ~Occurs(a, "registry update failed")
                /\ a \in DOMAIN apps =>
                       /\ apps[a].logo = Nil
                       /\ apps[a].status = "building"
                       /\ apps[a].name = tasks[a].appConfig[1].appName
                       /\ apps[a].production_url =
                              Ptr(GenerateProductionDomain(tasks[a].appConfig[1].appName,
                                                           IdText(a)))
                /\ a \in DOMAIN registry => registry[a].logo = Nil)
    /\ [][\A a \in AppIds :
            LastStage(a)' \in AssetFailures /\ stages'[a] # stages[a] =>
                apps' = apps /\ registry' = registry /\ versions' = versions]_vars

\* The upload failed after the registry record was created from a parsed config.
C23_Witness ==
    \E a \in DOMAIN apps :
        /\ Occurs(a, "upload failed") /\ Occurs(a, "registry created")
        /\ apps[a].name = Taskly /\ apps[a].logo = Nil
        /\ registry[a].name = Taskly

\* C24: the registry update is issued only once the logo URL is in the apps
\* row: whenever app-manager update is run for an app, the row of that app
\* exists and its logo is the URL the command carries.
C24_LogoStoredBeforeRegistry ==
    [][\A a \in AppIds :
          LogoAt(a, "registryUpdate") /\ ~LogoAt(a, "registryUpdate")' =>
              a \in DOMAIN apps /\ apps[a].logo = Ptr(LogoURL(a))]_vars

\* C25: the stages of each created app occur in the order row insert, config
\* extraction, AI-config row update, owner-email resolution, registry create,
\* asset generation (then download and upload), logo row update, registry
\* update; so no registry update comes before the end of the registry create
\* attempt and no logo write before the AI-config write attempt.
StageOrder ==
    <<{"inserted"},
      {"extracted", "extract failed"},
      {"updated", "update failed"},
      {"email resolved", "email failed"},
      {"registry created", "registry create failed"},
      {"logo launched"},
      {"generate done", "generate failed"},
      {"download done", "download failed"},
      {"upload done", "upload failed"},
      {"logo updated", "logo update failed"},
      {"registry updated", "registry update failed"}>>
Ordered(outcome) == \E k \in 1..Len(StageOrder) : outcome \in StageOrder[k]
Rank(outcome) == CHOOSE k \in 1..Len(StageOrder) : outcome \in StageOrder[k]
\* The request's own steps after the insert (launching the task, responding)
\* are no stages of the pipeline.
C25_StrictOrder ==
    \A a \in AppIds :
        /\ \A i \in 1..Len(stages[a]) :
              Ordered(stages[a][i]) \/ stages[a][i] \in {"launched", "responded"}
        /\ \A i, j \in 1..Len(stages[a]) :
              i < j /\ Ordered(stages[a][i]) /\ Ordered(stages[a][j]) =>
                  Rank(stages[a][i]) < Rank(stages[a][j])
        /\ \A j \in 1..Len(stages[a]) :
              Ordered(stages[a][j]) /\ Rank(stages[a][j]) > 1 =>
                  \E i \in 1..(j - 1) :
                     /\ Ordered(stages[a][i])
                     /\ Rank(stages[a][i]) = Rank(stages[a][j]) - 1
        /\ Occurs(a, "registry updated") \/ Occurs(a, "registry update failed") =>
              Occurs(a, "registry created") \/ Occurs(a, "registry create failed")
        /\ Occurs(a, "logo updated") \/ Occurs(a, "logo update failed") =>
              Occurs(a, "updated")

\* All eight stages have run for an app.
C25_Witness ==
    \E a \in DOMAIN apps :
        /\ Occurs(a, "extracted") /\ Occurs(a, "updated") /\ Occurs(a, "email resolved")
        /\ Occurs(a, "registry created") /\ Occurs(a, "generate done")
        /\ Occurs(a, "logo updated") /\ Occurs(a, "registry updated")
        /\ LastStage(a) = "registry updated"

\* C26: no stage of the pipeline is attempted twice for one created app, and
\* the apps row is written at most once by the AI-config stage (name, display
\* name, category, colour, hostname) and at most once by the asset stage
\* (logo only); no other step of the pipeline writes the row.
Attempts(a, k) == Cardinality({i \in 1..Len(stages[a]) : stages[a][i] \in StageOrder[k]})
ConfigFields(row) ==
    <<row.name, row.display_name, row.category, row.color_scheme, row.production_url>>
C26_NoRetry ==
    /\ [](\A a \in AppIds : \A k \in 1..Len(StageOrder) : Attempts(a, k) <= 1)
    /\ [][\A a \in DOMAIN apps \cap DOMAIN apps' :
            /\ ConfigFields(apps'[a]) # ConfigFields(apps[a]) =>
                   /\ LastStage(a)' = "updated" /\ Len(stages'[a]) = Len(stages[a]) + 1
                   /\ apps'[a].logo = apps[a].logo
            /\ apps'[a].logo # apps[a].logo =>
                   /\ LastStage(a)' = "logo updated" /\ Len(stages'[a]) = Len(stages[a]) + 1
                   /\ ConfigFields(apps'[a]) = ConfigFields(apps[a])
            /\ apps'[a] # apps[a] =>
                   ConfigFields(apps'[a]) # ConfigFields(apps[a]) \/ apps'[a].logo # apps[a].logo
         ]_vars

\* Both writes have been made, the first of them changing the row.
C26_Witness ==
    \E a \in DOMAIN apps :
        /\ Count(a, "updated") = 1 /\ Count(a, "logo updated") = 1
        /\ apps[a].name # MyApp /\ apps[a].logo # Nil

\* C29: the registry heals itself: when the registry create of the setup has
\* failed, an update of the app made afterwards leads to a registry record of
\* the app.
C29_RegistryHealsOnUpdate ==
    \A a \in AppIds :
        (\E i, j \in 1..Len(stages[a]) :
            /\ i < j
            /\ stages[a][i] = "registry create failed"
            /\ stages[a][j] = "app updated")
            ~> (a \in DOMAIN registry)

\* C27: the row is inserted with status `building`, and no step of the
\* background tasks, whether it succeeds or fails, changes the status, the
\* prod_version, the description or the owner of any row, nor adds or removes
\* a row.
BackgroundStep(a) ==
    /\ stages'[a] # stages[a]
    /\ LastStage(a)' \notin HandlerOutcomes \cup {"app updated"}
C27_StatusUntouched ==
    [][\A a \in AppIds :
          /\ LastStage(a)' = "inserted" /\ stages'[a] # stages[a] =>
                 a \in DOMAIN apps' /\ apps'[a].status = "building"
          /\ BackgroundStep(a) =>
                 /\ DOMAIN apps' = DOMAIN apps
                 /\ \A b \in DOMAIN apps :
                       /\ apps'[b].status = apps[b].status
                       /\ apps'[b].prod_version = apps[b].prod_version
                       /\ apps'[b].description = apps[b].description
                       /\ apps'[b].user_id = apps[b].user_id]_vars

\* The pipeline wrote the config and the logo into a row whose status and
\* prod_version an update had set before.
C27_Witness ==
    \E a \in DOMAIN apps :
        /\ apps[a].status = "active" /\ apps[a].prod_version = Ptr(1)
        /\ apps[a].name = Taskly /\ apps[a].logo = Ptr(LogoURL(a))
        /\ LastStage(a) = "logo updated"

\* C28: the AI-config stage, the asset stage and the promotion write disjoint
\* columns of the apps row (name, display name, category, colour, hostname;
\* logo; prod_version): no write of one changes a column of another, and in
\* every interleaving each column holds what its own writer wrote, or the
\* inserted value when its writer has not written, as after running the three
\* one after the other.
ConfigWritten(a) ==
    LET appConfig == tasks[a].appConfig[1]
    IN <<appConfig.appName, Ptr(appConfig.displayName), Ptr(appConfig.category),
         Ptr(appConfig.colorScheme),
         Ptr(GenerateProductionDomain(appConfig.appName, IdText(a)))>>
PromotionWrote(vid) ==
    \/ \E p \in Procs : pc[p] = "updateVersion" /\ loc[p].vid = vid
    \/ versions[vid].status = "promoted"
C28_DisjointFields ==
    /\ [](\A a \in DOMAIN apps :
            /\ ConfigFields(apps[a]) =
                   IF Occurs(a, "updated") THEN ConfigWritten(a)
                   ELSE ConfigFields(NewApp(a, Owner, Description))
            /\ apps[a].logo = IF Occurs(a, "logo updated") THEN Ptr(LogoURL(a)) ELSE Nil
            /\ apps[a].prod_version \in {Nil, Ptr(DeployedVersion.version_number)}
            /\ (\E vid \in VersionsOf(a) : PromotionWrote(vid)) =>
                   apps[a].prod_version = Ptr(DeployedVersion.version_number))
    /\ [][\A a \in DOMAIN apps :
            /\ ConfigFields(apps'[a]) # ConfigFields(apps[a]) =>
                   /\ SetupAt(a, "updateApp")
                   /\ apps'[a].logo = apps[a].logo
                   /\ apps'[a].prod_version = apps[a].prod_version
            /\ apps'[a].logo # apps[a].logo =>
                   /\ LogoAt(a, "updateLogo")
                   /\ ConfigFields(apps'[a]) = ConfigFields(apps[a])
                   /\ apps'[a].prod_version = apps[a].prod_version
            /\ apps'[a].prod_version # apps[a].prod_version =>
                   /\ pc[Handler] = "updateApp" /\ loc[Handler].app = a
                   /\ apps'[a].prod_version = Ptr(loc[Handler].version[1].version_number)
                   /\ ConfigFields(apps'[a]) = ConfigFields(apps[a])
                   /\ apps'[a].logo = apps[a].logo]_vars

\* The promotion wrote prod_version between the AI-config write and the logo
\* write and is still under way when the logo is in the row.
C28_Witness ==
    \E a \in DOMAIN apps :
        /\ pc[Handler] = "updateVersion" /\ loc[Handler].app = a
        /\ apps[a].prod_version = Ptr(1)
        /\ apps[a].name = Taskly
        /\ apps[a].logo = Ptr(LogoURL(a))
        /\ LastStage(a) = "logo updated"

\* C30: for every reply that parses, ExtractAppConfig returns the parsed
\* config with each empty field defaulted on its own and every other field as
\* parsed: an empty name becomes MyApp, an empty display name the name (after
\* its defaulting), an empty category `other`, an empty colour `blue`, an empty
\* keyword list [app]; so no name, display name, category, colour or keyword
\* list returned is empty.
Parses(r) ==
    /\ r.status = 200 /\ r.envelope
    /\ Len(r.candidates) > 0 /\ r.candidates[1].json
C30_FieldDefaults ==
    reply.op = "ExtractAppConfig" =>
        /\ reply.err = NoErr <=> Parses(reply.arg)
        /\ reply.err = NoErr =>
              LET parsed == reply.arg.candidates[1].config
                  config == reply.val[1]
              IN /\ config.appName = IF parsed.appName = <<>>
                                     THEN <<"M", "y", "A", "p", "p">> ELSE parsed.appName
                 /\ config.displayName = IF parsed.displayName = <<>>
                                         THEN config.appName ELSE parsed.displayName
                 /\ config.category = IF parsed.category = "" THEN "other" ELSE parsed.category
                 /\ config.colorScheme = IF parsed.colorScheme = "" THEN "blue"
                                         ELSE parsed.colorScheme
                 /\ config.keywords = IF parsed.keywords = <<>> THEN <<"app">>
                                      ELSE parsed.keywords
                 /\ config.requiresAuth = parsed.requiresAuth
                 /\ config.allowSignup = parsed.allowSignup
                 /\ config.appName # <<>> /\ config.displayName # <<>>
                 /\ config.category # "" /\ config.colorScheme # ""
                 /\ config.keywords # <<>>

\* A parsed config with no name and no display name, its other fields filled.
C30_Witness ==
    /\ reply.op = "ExtractAppConfig" /\ reply.err = NoErr
    /\ reply.arg.candidates[1].config.appName = <<>>
    /\ reply.arg.candidates[1].config.displayName = <<>>
    /\ reply.arg.candidates[1].config.category = "productivity"
    /\ reply.val[1].displayName = MyApp
    /\ reply.val[1].category = "productivity"

\* C31: a failed lookup of the owner's email does not end the pipeline: the
\* placeholder address unknown@example.com is taken, the registry create is
\* run next with that address, and the asset stage is launched after it.
C31_OwnerEmailFailure ==
    /\ [](\A a \in AppIds :
            Occurs(a, "email failed") =>
                /\ tasks[a].ownerEmail = "unknown@example.com"
                /\ ~(Occurs(a, "registry created") \/ Occurs(a, "registry create failed")) =>
                       SetupAt(a, "registryCreate") /\ ENABLED SetupRegistryCreate(a, TRUE)
                /\ Occurs(a, "registry created") /\ a \in DOMAIN registry =>
                       registry[a].owner_email = "unknown@example.com"
                /\ Occurs(a, "registry created") \/ Occurs(a, "registry create failed") =>
                       SetupAt(a, "goLogo") \/ Occurs(a, "logo launched"))
    /\ [][\A a \in AppIds :
            LastStage(a)' = "email failed" /\ stages'[a] # stages[a] =>
                apps' = apps /\ registry' = registry]_vars

\* The lookup failed and the pipeline went on to its last stage.
C31_Witness ==
    \E a \in DOMAIN registry :
        /\ Occurs(a, "email failed") /\ Occurs(a, "registry updated")
        /\ registry[a].owner_email = UnknownEmail
        /\ registry[a].logo = Ptr(LogoURL(a))

\* C32: with UpdateVersion and DeleteVersion calls running beside a
\* promotion, a version's status is written to `promoted` only over the status
\* `completed`: whenever a step makes the status of a version `promoted`, the
\* status was `completed` just before that step.
C32_PromotedOnlyOverCompleted ==
    [][\A vid \in DOMAIN versions \cap DOMAIN versions' :
          versions'[vid].status = "promoted" /\ versions[vid].status # "promoted" =>
              versions[vid].status = "completed"]_vars

\* C34: an app's prod_version, when not null, is the number of a version of
\* that app that exists; no deletion leaves it pointing at a missing version.
C34_ProdVersionExists ==
    \A a \in DOMAIN apps :
        apps[a].prod_version # Nil =>
            \E vid \in VersionsOf(a) : Ptr(versions[vid].version_number) = apps[a].prod_version

\* C35: when no call is under way after two successful promotions, one after
\* the other, of two versions of an app, at most one version of the app has
\* status `promoted`, and it is the one whose number is the app's prod_version.
C35_OnePromoted ==
    /\ Quiescent /\ Len(trail) = 2
    /\ trail[1].out = NoErr /\ trail[2].out = NoErr
    /\ trail[1].vid # trail[2].vid /\ Exists(trail[1].vid) /\ Exists(trail[2].vid)
    /\ AppOf(trail[1].vid) = AppOf(trail[2].vid)
    => LET promoted == {vid \in VersionsOf(AppOf(trail[2].vid)) :
                           versions[vid].status = "promoted"}
       IN /\ Cardinality(promoted) <= 1
          /\ \A vid \in promoted :
                apps[AppOf(vid)].prod_version = Ptr(versions[vid].version_number)

\* C33: whenever PromoteVersion has returned an error, every app's
\* prod_version is what it was when the call was made.
C33_ErrorLeavesProdVersion ==
    reply.op = "PromoteVersion" /\ reply.err \notin {"running", NoErr} =>
        \A a \in DOMAIN apps : apps[a].prod_version = reply.arg.before[a]

\* C36: under fair scheduling, every external call returning, the background
\* tasks of every created app come to their end, whatever stages fail: once
\* the setup task is launched, extractConfigAndSetupApp and, if launched,
\* generateAndUploadLogo reach their last statement, and they stay ended.
C36_PipelineTerminates ==
    \A a \in AppIds :
        /\ Occurs(a, "launched") ~> PipelineEnded(a)
        /\ [](Occurs(a, "launched") /\ PipelineEnded(a) => [](PipelineEnded(a)))

\* A pipeline that ended on a failed upload, after a failed extraction, a
\* failed email lookup and a failed registry create.
C36_Witness ==
    \E a \in AppIds :
        /\ PipelineEnded(a)
        /\ Occurs(a, "extract failed") /\ Occurs(a, "email failed")
        /\ Occurs(a, "registry create failed") /\ Occurs(a, "upload failed")

\* C37: PromoteDeployment returns no error exactly when the platform answered
\* with status 201 or 202, or with status 409 and a body that contains
\* 'already the current production deployment'; any other status (200
\* included), a 409 with another body and a transport failure give an error.
C37_SuccessExactly ==
    reply.op = "PromoteDeployment" =>
        (reply.err = NoErr <=>
            /\ reply.arg.status # -1
            /\ \/ reply.arg.status \in {201, 202}
               \/ /\ reply.arg.status = 409
                  /\ \E i \in 1..Len(reply.arg.body) :
                        reply.arg.body[i] = "already the current production deployment")

\* A 409 whose body has the phrase after other text is taken as success.
C37_Witness ==
    /\ reply.op = "PromoteDeployment" /\ reply.err = NoErr
    /\ reply.arg.status = 409
    /\ reply.arg.body = <<"conflict", "already the current production deployment">>

====
